---- MODULE Spec2Model ----
(***************************************************************************)
(* A model of the Stellaris definitions generator: the Paradox-script      *)
(* parser (ParadoxParser), the requirement extraction of CivicsBuilder and *)
(* OriginsBuilder, and their bidirectional incompatibility closure.        *)
(*                                                                         *)
(* JavaScript values are tagged records.  A mapping keeps its keys in      *)
(* insertion order (keys and vals are parallel sequences), as a JS object  *)
(* with non-numeric keys does; a JS Set is a duplicate-free sequence in    *)
(* insertion order.                                                        *)
(***************************************************************************)
EXTENDS Integers, Sequences, FiniteSets, TLC

(***************************************************************************)
(* Bounds of the model.                                                    *)
(***************************************************************************)
MaxEntities == 2

MaxCivicsFiles == 1

\* The longest text the lexer runs are drawn from, in characters.
MaxTextLen == 4

\* The most entries of a generated block, and the most tokens of a generated
\* token sequence.
MaxEntries == 3

MaxTokens == 4

\* The most elements of a list, and keys of a mapping, of a generated value
\* tree.
MaxWidth == 2

\* The most traits of a parsed traits file.
MaxTraits == 2

(***************************************************************************)
(* JavaScript values.                                                      *)
(***************************************************************************)
Undef == [t |-> "undef"]

Null == [t |-> "null"]

Str(s) == [t |-> "str", s |-> s]

\* A number: its sign, its integer part and the digits of its fraction
\* (without trailing zeros).
Num(n) ==
    [t |-> "num", neg |-> n < 0, int |-> IF n < 0 THEN -n ELSE n, frac |-> ""]

Bool(b) == [t |-> "bool", b |-> b]

List(q) == [t |-> "list", items |-> q]

Map(k, v) == [t |-> "map", keys |-> k, vals |-> v]

EmptyMap == Map(<<>>, <<>>)

\* One- and two-key object literals.
Obj1(k1, v1) == Map(<<k1>>, <<v1>>)

Obj2(k1, v1, k2, v2) == Map(<<k1, k2>>, <<v1, v2>>)

\* The index of key k in the key sequence ks, 0 when absent.
RECURSIVE IndexOf(_, _)
IndexOf(ks, k) ==
    IF ks = <<>> THEN 0
    ELSE IF ks[Len(ks)] = k THEN Len(ks)
    ELSE IndexOf(SubSeq(ks, 1, Len(ks) - 1), k)

SeqToSet(q) == {q[i] : i \in DOMAIN q}

\* Object.prototype.hasOwnProperty.call(x, k) / (k in x) for a plain object.
HasKey(x, k) == x.t = "map" /\ k \in SeqToSet(x.keys)

\* The property read x.k: undefined on anything but an object holding k
\* (arrays, strings, numbers and booleans have none of the keys used here).
Get(x, k) == IF HasKey(x, k) THEN x.vals[IndexOf(x.keys, k)] ELSE Undef

\* Array.isArray(x)
IsArray(x) == x.t = "list"

\* typeof x === 'object' && x !== null && !Array.isArray(x)
IsPlainObject(x) == x.t = "map"

\* JavaScript truthiness, as used by `if (x)` and `!x`.
Truthy(x) ==
    CASE x.t = "undef" -> FALSE
      [] x.t = "null" -> FALSE
      [] x.t = "str" -> x.s # ""
      [] x.t = "num" -> x.int # 0 \/ x.frac # ""
      [] x.t = "bool" -> x.b
      [] OTHER -> TRUE

\* x[0] of an array: its first element, undefined when it is empty.
First(x) == IF x.items = <<>> THEN Undef ELSE x.items[1]

\* [...new Set(q)]: the first occurrence of every value, in order.  Strings
\* are compared by value; arrays (the OR groups) by identity, so no group is
\* ever dropped.
RECURSIVE Dedupe(_)
Dedupe(q) ==
    IF q = <<>> THEN <<>>
    ELSE LET init == Dedupe(SubSeq(q, 1, Len(q) - 1))
             x == q[Len(q)]
         IN  IF x \in SeqToSet(init) THEN init ELSE Append(init, x)

(***************************************************************************)
(* Identifiers and their order.  Array.prototype.sort() without a          *)
(* comparator orders strings by UTF-16 code units; IdOrder lists the       *)
(* identifiers of the model in that order.                                 *)
(***************************************************************************)
IdOrder ==
    << "civic_a", "civic_b", "civic_c", "civic_z", "origin_x", "origin_y" >>

Rank(s) == IndexOf(IdOrder, s)

\* a < b as strings
StrLess(a, b) == Rank(a) < Rank(b)

RECURSIVE InsertSorted(_, _)
InsertSorted(q, x) ==
    IF q = <<>> THEN <<x>>
    ELSE IF StrLess(x, Head(q)) THEN <<x>> \o q
    ELSE <<Head(q)>> \o InsertSorted(Tail(q), x)

RECURSIVE SortStrings(_)
SortStrings(q) ==
    IF q = <<>> THEN <<>>
    ELSE InsertSorted(SortStrings(SubSeq(q, 1, Len(q) - 1)), q[Len(q)])

(***************************************************************************)
(* _gather: the identifiers of a value tree.                               *)
(***************************************************************************)
RECURSIVE Gather(_)
RECURSIVE GatherAll(_)
GatherAll(q) ==
    IF q = <<>> THEN <<>> ELSE Gather(Head(q)) \o GatherAll(Tail(q))

\* _gather as it would be if the siblings of a `value` key were gathered
\* too.
GatherWithSiblings(x) ==
    CASE x.t \in {"undef", "null"} -> <<>>
      [] x.t = "str" -> <<x.s>>
      [] x.t = "list" -> GatherAll(x.items)
      [] x.t = "map" -> GatherAll(x.vals)
      [] OTHER -> <<>>

\* CivicsBuilder._gather and OriginsBuilder._gather (the same code)
Gather(x) ==
    CASE x.t \in {"undef", "null"} -> <<>>
      [] x.t = "str" -> <<x.s>>
      [] x.t = "list" -> GatherAll(x.items)
      [] x.t = "map" ->
            IF HasKey(x, "value") THEN Gather(Get(x, "value"))
            ELSE GatherAll(x.vals)
      [] OTHER -> <<>>

\* String(x) of a number: its sign, its integer part in decimal and its
\* fraction.
DigitChar(d) ==
    CASE d = 0 -> "0" [] d = 1 -> "1" [] d = 2 -> "2" [] d = 3 -> "3"
      [] d = 4 -> "4" [] d = 5 -> "5" [] d = 6 -> "6" [] d = 7 -> "7"
      [] d = 8 -> "8" [] d = 9 -> "9"

RECURSIVE DecimalString(_)
DecimalString(n) ==
    IF n < 10 THEN DigitChar(n)
    ELSE DecimalString(n \div 10) \o DigitChar(n % 10)

NumberString(x) ==
    (IF x.neg THEN "-" ELSE "") \o DecimalString(x.int)
        \o (IF x.frac = "" THEN "" ELSE "." \o x.frac)

\* EthicsBuilder._gather: as the builders', but a number yields its string.
RECURSIVE GatherEthics(_)
RECURSIVE GatherEthicsAll(_)
GatherEthicsAll(q) ==
    IF q = <<>> THEN <<>>
    ELSE GatherEthics(Head(q)) \o GatherEthicsAll(Tail(q))

GatherEthics(x) ==
    CASE x.t \in {"undef", "null"} -> <<>>
      [] x.t = "str" -> <<x.s>>
      [] x.t = "num" -> <<NumberString(x)>>
      [] x.t = "list" -> GatherEthicsAll(x.items)
      [] x.t = "map" ->
            IF HasKey(x, "value") THEN GatherEthics(Get(x, "value"))
            ELSE GatherEthicsAll(x.vals)
      [] OTHER -> <<>>

(***************************************************************************)
(* Requirement lists.  An element of a required list is a bare identifier  *)
(* or an OR group (an array of identifiers); forbidden lists hold what     *)
(* _gather returns, plain identifiers.                                     *)
(***************************************************************************)
Atom(s) == [g |-> FALSE, id |-> s]

Group(q) == [g |-> TRUE, ids |-> q]

Atoms(q) == [i \in DOMAIN q |-> Atom(q[i])]

\* The groups pushed for an array of OR blocks: one per block that gathers
\* anything.
RECURSIVE OrGroups(_)
OrGroups(q) ==
    IF q = <<>> THEN <<>>
    ELSE LET group == Gather(Head(q))
         IN  (IF group # <<>> THEN <<Group(group)>> ELSE <<>>)
                 \o OrGroups(Tail(q))

\* _handle as it would be if the identifiers of an OR block were spread into
\* the required list.
HandleSpreadingOr(block, yesArr, noArr) ==
    IF ~Truthy(block) THEN [yes |-> yesArr, no |-> noArr]
    ELSE LET or == Get(block, "OR")
             y1 == IF IsArray(or) THEN yesArr \o Atoms(GatherAll(or.items))
                   ELSE IF Truthy(or) THEN yesArr \o Atoms(Gather(or))
                   ELSE yesArr
             n1 == IF Truthy(Get(block, "NOR"))
                   THEN noArr \o Gather(Get(block, "NOR")) ELSE noArr
             n2 == IF Truthy(Get(block, "NOT"))
                   THEN n1 \o Gather(Get(block, "NOT")) ELSE n1
             y2 == IF Truthy(Get(block, "value"))
                   THEN y1 \o Atoms(Gather(Get(block, "value"))) ELSE y1
         IN  [yes |-> y2, no |-> n2]

\* _handle as it would be if the NOT sub-node replaced what NOR had added.
HandleNotReplacing(block, yesArr, noArr) ==
    IF ~Truthy(block) THEN [yes |-> yesArr, no |-> noArr]
    ELSE LET or == Get(block, "OR")
             y1 == IF IsArray(or) THEN yesArr \o OrGroups(or.items)
                   ELSE IF Truthy(or) /\ Gather(or) # <<>>
                        THEN Append(yesArr, Group(Gather(or)))
                   ELSE yesArr
             n1 == IF Truthy(Get(block, "NOR"))
                   THEN noArr \o Gather(Get(block, "NOR")) ELSE noArr
             n2 == IF Truthy(Get(block, "NOT"))
                   THEN noArr \o Gather(Get(block, "NOT")) ELSE n1
             y2 == IF Truthy(Get(block, "value"))
                   THEN y1 \o Atoms(Gather(Get(block, "value"))) ELSE y1
         IN  [yes |-> y2, no |-> n2]

\* _handle(block, yesArr, noArr), returning the two arrays.
Handle(block, yesArr, noArr) ==
    IF ~Truthy(block) THEN [yes |-> yesArr, no |-> noArr]
    ELSE LET or == Get(block, "OR")
             y1 == IF IsArray(or) THEN yesArr \o OrGroups(or.items)
                   ELSE IF Truthy(or) /\ Gather(or) # <<>>
                        THEN Append(yesArr, Group(Gather(or)))
                   ELSE yesArr
             n1 == IF Truthy(Get(block, "NOR"))
                   THEN noArr \o Gather(Get(block, "NOR")) ELSE noArr
             n2 == IF Truthy(Get(block, "NOT"))
                   THEN n1 \o Gather(Get(block, "NOT")) ELSE n1
             y2 == IF Truthy(Get(block, "value"))
                   THEN y1 \o Atoms(Gather(Get(block, "value"))) ELSE y1
         IN  [yes |-> y2, no |-> n2]

\* _handleCulture(block, yesArr, noArr): OR blocks are spread, not grouped.
HandleCulture(block, yesArr, noArr) ==
    IF ~Truthy(block) THEN [yes |-> yesArr, no |-> noArr]
    ELSE LET or == Get(block, "OR")
             y1 == IF IsArray(or) THEN yesArr \o Atoms(GatherAll(or.items))
                   ELSE IF Truthy(or) THEN yesArr \o Atoms(Gather(or))
                   ELSE yesArr
             n1 == IF Truthy(Get(block, "NOR"))
                   THEN noArr \o Gather(Get(block, "NOR")) ELSE noArr
             n2 == IF Truthy(Get(block, "NOT"))
                   THEN n1 \o Gather(Get(block, "NOT")) ELSE n1
             y2 == IF Truthy(Get(block, "value"))
                   THEN y1 \o Atoms(Gather(Get(block, "value"))) ELSE y1
         IN  [yes |-> y2, no |-> n2]

\* The `values` of _extractReqs: an array whose first element is a plain
\* object is an array of blocks (a duplicated key); anything else is one
\* value.
BlocksOf(val) ==
    IF IsArray(val) /\ IsPlainObject(First(val)) THEN val.items ELSE <<val>>

\* The facet a key of a condition block feeds, "" when the key is ignored.
CivicsFacet(key) ==
    CASE key = "ethics" -> "ethics"
      [] key \in {"authority", "authorities"} -> "authorities"
      [] key = "civics" -> "civics"
      [] key \in {"species_archetype", "species_archetypes"} ->
            "species_archetype"
      [] key = "species_class" -> "species_archetype"
      [] key = "graphical_culture" -> "culture"
      [] OTHER -> ""

OriginsFacet(key) ==
    CASE key = "ethics" -> "ethics"
      [] key \in {"authority", "authorities"} -> "authorities"
      [] key = "civics" -> "civics"
      [] key = "species_class" -> "species_class"
      [] key = "species_archetype" -> "species_archetype"
      [] key = "graphical_culture" -> "culture"
      [] OTHER -> ""

\* One `key, v` step of _extractReqs on the requirement pair req.
HandleKey(facet, key, v, req) ==
    IF facet = "" THEN req
    ELSE LET r == IF key = "graphical_culture"
                  THEN HandleCulture(v, req.yes[facet], req.no[facet])
                  ELSE Handle(v, req.yes[facet], req.no[facet])
         IN  [yes |-> [req.yes EXCEPT ![facet] = r.yes],
              no |-> [req.no EXCEPT ![facet] = r.no]]

RECURSIVE HandleValues(_, _, _, _)
HandleValues(facet, key, vs, req) ==
    IF vs = <<>> THEN req
    ELSE HandleValues(facet, key, Tail(vs),
                      HandleKey(facet, key, Head(vs), req))

RECURSIVE CivicsExtractEntries(_, _, _)
CivicsExtractEntries(ks, vs, req) ==
    IF ks = <<>> THEN req
    ELSE CivicsExtractEntries(Tail(ks), Tail(vs),
            HandleValues(CivicsFacet(Head(ks)), Head(ks),
                         BlocksOf(Head(vs)), req))

\* CivicsBuilder._extractReqs(node, yes, no).  Object.entries of an array or
\* a string yields index keys, none of which names a facet.
CivicsExtractReqs(node, req) ==
    IF node.t = "map" THEN CivicsExtractEntries(node.keys, node.vals, req)
    ELSE req

RECURSIVE OriginsExtractEntries(_, _, _)
OriginsExtractEntries(ks, vs, req) ==
    IF ks = <<>> THEN req
    ELSE OriginsExtractEntries(Tail(ks), Tail(vs),
            HandleValues(OriginsFacet(Head(ks)), Head(ks),
                         BlocksOf(Head(vs)), req))

\* OriginsBuilder._extractReqs(node, yes, no)
OriginsExtractReqs(node, req) ==
    IF node.t = "map" THEN OriginsExtractEntries(node.keys, node.vals, req)
    ELSE req

(***************************************************************************)
(* CivicsBuilder.build, one civic.                                         *)
(***************************************************************************)
CivicsEmptyLists ==
    [authorities |-> <<>>, civics |-> <<>>, ethics |-> <<>>,
     species_archetype |-> <<>>, culture |-> <<>>]

OriginsEmptyLists ==
    [authorities |-> <<>>, civics |-> <<>>, ethics |-> <<>>,
     species_class |-> <<>>, species_archetype |-> <<>>, culture |-> <<>>]

\* `typeof notBlock === 'object' && notBlock.host_has_dlc`: objects and
\* arrays are of type object; an array has no such property.
IsNoDLCBlock(notBlock) ==
    notBlock.t \in {"map", "list"} /\ Truthy(Get(notBlock, "host_has_dlc"))

\* _requiresNoDLC as it would be if a repeated NOT (an array) were not
\* looked into.
RequiresNoDLCSingleNot(civicData) ==
    LET playable == Get(civicData, "playable")
    IN  Truthy(playable) /\ IsNoDLCBlock(Get(playable, "NOT"))

\* CivicsBuilder._requiresNoDLC(civicData)
RequiresNoDLC(civicData) ==
    LET playable == Get(civicData, "playable")
        not == Get(playable, "NOT")
        notBlocks == IF IsArray(not) THEN not.items ELSE <<not>>
    IN  /\ Truthy(playable)
        /\ Truthy(not)
        /\ \E i \in DOMAIN notBlocks : IsNoDLCBlock(notBlocks[i])

RECURSIVE CivicsExtractBlocks(_, _)
CivicsExtractBlocks(blocks, req) ==
    IF blocks = <<>> THEN req
    ELSE CivicsExtractBlocks(Tail(blocks), CivicsExtractReqs(Head(blocks), req))

\* [...new Set(q)] on a required list: OR groups are arrays, distinct objects
\* to a Set even when their contents agree, so only bare identifiers are
\* deduplicated.
RECURSIVE DedupeAtoms(_)
DedupeAtoms(q) ==
    IF q = <<>> THEN <<>>
    ELSE LET init == DedupeAtoms(SubSeq(q, 1, Len(q) - 1))
             x == q[Len(q)]
         IN  IF ~x.g /\ x \in SeqToSet(init) THEN init ELSE Append(init, x)

\* The "dedupe small arrays" lines of both builders.
DedupeYes(lists) == [f \in DOMAIN lists |-> DedupeAtoms(lists[f])]

DedupeNo(lists) == [f \in DOMAIN lists |-> Dedupe(lists[f])]

\* The body of CivicsBuilder.build's loop for a civic that is kept: its
\* { yes, no } before the closure.
CivicsEntry(civicData) ==
    LET potential == Get(civicData, "potential")
        possible == Get(civicData, "possible")
        r0 == [yes |-> CivicsEmptyLists, no |-> CivicsEmptyLists]
        r1 == IF Truthy(potential) THEN CivicsExtractReqs(potential, r0)
              ELSE r0
        r2 == IF ~Truthy(possible) THEN r1
              ELSE IF IsArray(possible)
                   THEN CivicsExtractBlocks(possible.items, r1)
              ELSE CivicsExtractReqs(possible, r1)
    IN  [yes |-> DedupeYes(r2.yes), no |-> DedupeNo(r2.no)]

(***************************************************************************)
(* OriginsBuilder.build, one origin.                                       *)
(***************************************************************************)
RECURSIVE OriginsExtractBlocks(_, _)
OriginsExtractBlocks(blocks, req) ==
    IF blocks = <<>> THEN req
    ELSE OriginsExtractBlocks(Tail(blocks),
                              OriginsExtractReqs(Head(blocks), req))

\* A potential or possible section: one block, or an array of blocks.
OriginsExtractSection(section, req) ==
    IF ~Truthy(section) THEN req
    ELSE IF IsArray(section) THEN OriginsExtractBlocks(section.items, req)
    ELSE OriginsExtractReqs(section, req)

\* The identifiers of an allowed_archetypes value (strings in the data).
ArchetypeIds(v) ==
    LET items == IF IsArray(v) THEN v.items ELSE <<v>>
    IN  [i \in DOMAIN items |-> items[i].s]

\* OriginsBuilder._extractTraitRequirements: the species_archetype list
\* after the groups of the force-added traits are pushed.
RECURSIVE PushTraitGroups(_, _, _)
PushTraitGroups(traitIds, lookup, archetypes) ==
    IF traitIds = <<>> THEN archetypes
    ELSE LET traitData == Get(lookup, Head(traitIds))
             allowed == Get(traitData, "allowed_archetypes")
         IN  PushTraitGroups(Tail(traitIds), lookup,
                IF Truthy(traitData) /\ Truthy(allowed)
                THEN Append(archetypes, Group(ArchetypeIds(allowed)))
                ELSE archetypes)

ExtractTraitRequirements(traitsBlock, yes, lookup) ==
    [yes EXCEPT !.species_archetype =
        PushTraitGroups(Gather(Get(traitsBlock, "trait")), lookup, @)]

\* The flattening as it would be if it left every group as it is.
FlattenItemNever(item) == item

\* OriginsBuilder._flattenSingleElementGroups
FlattenItem(item) ==
    IF item.g /\ Len(item.ids) = 1 THEN Atom(item.ids[1]) ELSE item

FlattenSingleElementGroups(yes) ==
    [f \in DOMAIN yes |-> [i \in DOMAIN yes[f] |-> FlattenItem(yes[f][i])]]

\* The body of OriginsBuilder.build's loop for an origin that is kept, up to
\* the call of _flattenSingleElementGroups: yes and no after the extraction,
\* the deduplication and the requirements of the force-added traits.
OriginsBeforeFlatten(originData, lookup) ==
    LET r0 == [yes |-> OriginsEmptyLists, no |-> OriginsEmptyLists]
        r1 == OriginsExtractSection(Get(originData, "potential"), r0)
        r2 == OriginsExtractSection(Get(originData, "possible"), r1)
        yes == DedupeYes(r2.yes)
        traits == Get(originData, "traits")
        y1 == IF Truthy(traits) /\ Truthy(lookup)
              THEN ExtractTraitRequirements(traits, yes, lookup) ELSE yes
    IN  [yes |-> y1, no |-> DedupeNo(r2.no)]

\* The body of OriginsBuilder.build's loop for an origin that is kept.
OriginsEntry(originData, lookup) ==
    LET r == OriginsBeforeFlatten(originData, lookup)
    IN  [yes |-> FlattenSingleElementGroups(r.yes), no |-> r.no]

(***************************************************************************)
(* The incompatibility map of _makeBidirectional: a Map from identifier to *)
(* Set, both in insertion order.                                           *)
(***************************************************************************)
EmptyInc == [names |-> <<>>, sets |-> <<>>]

IncHas(m, k) == k \in SeqToSet(m.names)

IncGet(m, k) == m.sets[IndexOf(m.names, k)]

\* if (!m.has(k)) m.set(k, new Set())
IncEnsure(m, k) ==
    IF IncHas(m, k) THEN m
    ELSE [names |-> Append(m.names, k), sets |-> Append(m.sets, <<>>)]

\* m.get(k).add(v)
IncAdd(m, k, v) ==
    LET i == IndexOf(m.names, k)
    IN  IF v \in SeqToSet(m.sets[i]) THEN m
        ELSE [m EXCEPT !.sets[i] = Append(@, v)]

\* The first pass as it would be without the reverse direction.
RECURSIVE CivicsCollectOneWay(_, _, _)
CivicsCollectOneWay(m, civicName, noCivics) ==
    IF noCivics = <<>> THEN m
    ELSE CivicsCollectOneWay(IncAdd(m, civicName, Head(noCivics)), civicName,
                             Tail(noCivics))

\* The inner loop of CivicsBuilder's first pass: civicName forbids each
\* forbiddenCivic, and each forbiddenCivic forbids civicName.
RECURSIVE CivicsCollectForbidden(_, _, _)
CivicsCollectForbidden(m, civicName, noCivics) ==
    IF noCivics = <<>> THEN m
    ELSE LET forbiddenCivic == Head(noCivics)
             m1 == IncAdd(m, civicName, forbiddenCivic)
             m2 == IncAdd(IncEnsure(m1, forbiddenCivic), forbiddenCivic,
                          civicName)
         IN  CivicsCollectForbidden(m2, civicName, Tail(noCivics))

\* One iteration of CivicsBuilder._makeBidirectional's first pass.
CivicsCollect(m, civicName, noCivics) ==
    CivicsCollectForbidden(IncEnsure(m, civicName), civicName, noCivics)

RECURSIVE IncAddAll(_, _, _)
IncAddAll(m, k, vs) ==
    IF vs = <<>> THEN m ELSE IncAddAll(IncAdd(m, k, Head(vs)), k, Tail(vs))

\* One iteration of OriginsBuilder._makeBidirectional's first pass.
OriginsCollect(m, originName, noCivics) ==
    IncAddAll(IncEnsure(m, originName), originName, noCivics)

\* Array.from(set) without the sort.
UnsortedSet(set) == set

\* Array.from(set).sort(): the rewritten no.civics of an entity.
SortedSet(set) == SortStrings(set)

\* The last pass as it would be if it kept only the identifiers that are
\* entries of defs.
RewriteKnownOnly(d, m, i) ==
    LET known(x) == x \in SeqToSet(d.names)
    IN  [d EXCEPT !.recs[i].no.civics =
            SelectSeq(SortedSet(IncGet(m, d.names[i])), known)]

\* The last pass as it would be if it put a fresh { yes, no } holding only
\* the closure list in place of the entry.
RewriteWholeEntry(d, m, i) ==
    [d EXCEPT !.recs[i] =
        [yes |-> [f \in DOMAIN @.yes |-> <<>>],
         no |-> [f \in DOMAIN @.no |->
                    IF f = "civics" /\ IncHas(m, d.names[i])
                    THEN SortedSet(IncGet(m, d.names[i])) ELSE <<>>]]]

\* One iteration of the last pass of either _makeBidirectional, on entry i of
\* defs.
Rewrite(d, m, i) ==
    IF IncHas(m, d.names[i])
    THEN [d EXCEPT !.recs[i].no.civics = SortedSet(IncGet(m, d.names[i]))]
    ELSE d

(***************************************************************************)
(* OriginsBuilder: the origins a civic forbids.                            *)
(***************************************************************************)
\* OriginsBuilder._extractForbiddenValues(block)
ExtractForbiddenValues(block) ==
    IF ~Truthy(block) THEN <<>>
    ELSE LET not == Get(block, "NOT")
             nor == Get(block, "NOR")
             norBlocks == IF IsArray(nor) THEN nor.items ELSE <<nor>>
         IN  (IF Truthy(not) THEN Gather(not) ELSE <<>>)
                 \o (IF Truthy(nor) THEN GatherAll(norBlocks) ELSE <<>>)

RECURSIVE ForbiddenOfBlocks(_)
ForbiddenOfBlocks(blocks) ==
    IF blocks = <<>> THEN <<>>
    ELSE ExtractForbiddenValues(Head(blocks)) \o ForbiddenOfBlocks(Tail(blocks))

RECURSIVE ForbiddenOfPossibles(_)
ForbiddenOfPossibles(possibleBlocks) ==
    IF possibleBlocks = <<>> THEN <<>>
    ELSE LET possible == Head(possibleBlocks)
             origin == Get(possible, "origin")
         IN  (IF Truthy(possible) /\ Truthy(origin)
              THEN ForbiddenOfBlocks(BlocksOf(origin)) ELSE <<>>)
                 \o ForbiddenOfPossibles(Tail(possibleBlocks))

\* OriginsBuilder._extractOriginRestrictions(civicData)
ExtractOriginRestrictions(civicData) ==
    LET potential == Get(civicData, "potential")
        possible == Get(civicData, "possible")
        possibleBlocks == IF IsArray(possible) THEN possible.items
                          ELSE IF Truthy(possible) THEN <<possible>>
                          ELSE <<>>
    IN  (IF Truthy(potential) /\ Truthy(Get(potential, "origin"))
         THEN ExtractForbiddenValues(Get(potential, "origin")) ELSE <<>>)
            \o ForbiddenOfPossibles(possibleBlocks)

\* The loop over forbiddenOrigins: only origins already in the map get the
\* civic.
RECURSIVE AddCivicToOrigins(_, _, _)
AddCivicToOrigins(m, civicName, forbiddenOrigins) ==
    IF forbiddenOrigins = <<>> THEN m
    ELSE AddCivicToOrigins(
            IF IncHas(m, Head(forbiddenOrigins))
            THEN IncAdd(m, Head(forbiddenOrigins), civicName) ELSE m,
            civicName, Tail(forbiddenOrigins))

\* The second pass over one civics file.
RECURSIVE ScanCivics(_, _, _)
ScanCivics(m, names, data) ==
    IF names = <<>> THEN m
    ELSE ScanCivics(
            AddCivicToOrigins(m, Head(names),
                              ExtractOriginRestrictions(Head(data))),
            Tail(names), Tail(data))

ScanCivicsFile(m, civicsFile) == ScanCivics(m, civicsFile.names, civicsFile.data)

(***************************************************************************)
(* ParadoxParser: the lexer.  A text is a string; src[i] of the code is     *)
(* CharAt(src, i), with i counted from 0.                                  *)
(***************************************************************************)
CharAt(src, i) == SubSeq(src, i + 1, i + 1)

\* /\s/ on the characters of the model
IsWhitespace(c) == c \in {" ", "\n", "\t", "\r"}

\* The set `specials` of _tokenize.
Specials == {"{", "}", "=", ">", "<", "!", "\""}

\* text.replace(/\r\n?/g, '\n')
RECURSIVE NormalizeNewlines(_)
NormalizeNewlines(text) ==
    IF text = "" THEN ""
    ELSE IF CharAt(text, 0) = "\r"
         THEN "\n" \o NormalizeNewlines(
                        IF Len(text) > 1 /\ CharAt(text, 1) = "\n"
                        THEN SubSeq(text, 3, Len(text))
                        ELSE SubSeq(text, 2, Len(text)))
    ELSE CharAt(text, 0) \o NormalizeNewlines(SubSeq(text, 2, Len(text)))

\* The count `bs` of both quote tests: the backslashes that end at index j.
RECURSIVE BackslashesUpTo(_, _)
BackslashesUpTo(src, j) ==
    IF j >= 0 /\ CharAt(src, j) = "\\" THEN 1 + BackslashesUpTo(src, j - 1)
    ELSE 0

\* The inner loop of _stripComments: the index of the next newline, or the
\* length of src.
RECURSIVE SkipToNewline(_, _)
SkipToNewline(src, i) ==
    IF i < Len(src) /\ CharAt(src, i) # "\n" THEN SkipToNewline(src, i + 1)
    ELSE i

\* The loop of _stripComments from index i on.
RECURSIVE StripFrom(_, _, _, _)
StripFrom(src, i, inQuote, out) ==
    IF i >= Len(src) THEN out
    ELSE LET ch == CharAt(src, i)
         IN  IF ch = "\""
             THEN StripFrom(src, i + 1,
                            IF BackslashesUpTo(src, i - 1) % 2 = 0
                            THEN ~inQuote ELSE inQuote,
                            out \o ch)
             ELSE IF ~inQuote /\ ch = "#"
             THEN LET n == SkipToNewline(src, i)
                  IN  StripFrom(src, n + 1, inQuote,
                                IF n < Len(src) THEN out \o "\n" ELSE out)
             ELSE StripFrom(src, i + 1, inQuote, out \o ch)

\* ParadoxParser._stripComments(src)
StripComments(src) == StripFrom(src, 0, FALSE, "")

Token(type, value) == [type |-> type, value |-> value]

\* The loop that reads a quoted string from index j on: where it ends and
\* what it read.
RECURSIVE ReadString(_, _, _)
ReadString(src, j, str) ==
    IF j >= Len(src) THEN [j |-> j, str |-> str]
    ELSE IF CharAt(src, j) = "\"" /\ BackslashesUpTo(src, j - 1) % 2 = 0
         THEN [j |-> j + 1, str |-> str]
    ELSE ReadString(src, j + 1, str \o CharAt(src, j))

\* The end of the word that starts at index j.
RECURSIVE WordEnd(_, _)
WordEnd(src, j) ==
    IF j < Len(src) /\ ~IsWhitespace(CharAt(src, j))
                    /\ CharAt(src, j) \notin Specials
    THEN WordEnd(src, j + 1)
    ELSE j

Digits == {"0", "1", "2", "3", "4", "5", "6", "7", "8", "9"}

\* /^\d+$/
IsDigits(w) == w # "" /\ \A k \in 1..Len(w) : SubSeq(w, k, k) \in Digits

\* /^-?\d+(\.\d+)?$/
IsNumberWord(word) ==
    LET w == IF word # "" /\ CharAt(word, 0) = "-"
             THEN SubSeq(word, 2, Len(word)) ELSE word
    IN  \/ IsDigits(w)
        \/ \E k \in 1..Len(w) :
              /\ SubSeq(w, k, k) = "."
              /\ IsDigits(SubSeq(w, 1, k - 1))
              /\ IsDigits(SubSeq(w, k + 1, Len(w)))

\* One iteration of the loop of _tokenize at index i: the next index and the
\* tokens.
TokenizeAt(src, i, toks) ==
    LET ch == CharAt(src, i)
    IN  IF IsWhitespace(ch) THEN [i |-> i + 1, tokens |-> toks]
        ELSE IF ch \in {"{", "}", "="}
             THEN [i |-> i + 1, tokens |-> Append(toks, Token(ch, ch))]
        ELSE IF ch = "\""
             THEN LET r == ReadString(src, i + 1, "")
                  IN  [i |-> r.j, tokens |-> Append(toks, Token("string", r.str))]
        ELSE IF ch \in {">", "<", "!"}
             THEN IF i + 1 < Len(src) /\ CharAt(src, i + 1) = "="
                  THEN [i |-> i + 2,
                        tokens |-> Append(toks, Token("op", ch \o "="))]
                  ELSE [i |-> i + 1, tokens |-> Append(toks, Token("op", ch))]
        ELSE LET j == WordEnd(src, i)
                 word == SubSeq(src, i + 1, j)
             IN  [i |-> j,
                  tokens |-> Append(toks,
                                Token(IF IsNumberWord(word) THEN "number"
                                      ELSE "word", word))]

\* ParadoxParser._tokenize(src) from index i on.
RECURSIVE TokenizeFrom(_, _, _)
TokenizeFrom(src, i, toks) ==
    IF i >= Len(src) THEN toks
    ELSE LET r == TokenizeAt(src, i, toks)
         IN  TokenizeFrom(src, r.i, r.tokens)

\* this._tokenize(this._stripComments(this.text)) of parse(text)
Lex(text) == TokenizeFrom(StripComments(NormalizeNewlines(text)), 0, <<>>)

(***************************************************************************)
(* ParadoxParser: the parser.                                              *)
(***************************************************************************)
DigitValue(c) ==
    CASE c = "0" -> 0 [] c = "1" -> 1 [] c = "2" -> 2 [] c = "3" -> 3
      [] c = "4" -> 4 [] c = "5" -> 5 [] c = "6" -> 6 [] c = "7" -> 7
      [] c = "8" -> 8 [] c = "9" -> 9

RECURSIVE DecimalValue(_)
DecimalValue(w) ==
    IF w = "" THEN 0
    ELSE 10 * DecimalValue(SubSeq(w, 1, Len(w) - 1))
            + DigitValue(SubSeq(w, Len(w), Len(w)))

RECURSIVE TrimZeros(_)
TrimZeros(w) ==
    IF w # "" /\ SubSeq(w, Len(w), Len(w)) = "0"
    THEN TrimZeros(SubSeq(w, 1, Len(w) - 1))
    ELSE w

\* Number(value) of a number token.
NumberOf(word) ==
    LET neg == CharAt(word, 0) = "-"
        w == IF neg THEN SubSeq(word, 2, Len(word)) ELSE word
        dots == {k \in 1..Len(w) : SubSeq(w, k, k) = "."}
        dot == IF dots = {} THEN Len(w) + 1 ELSE CHOOSE k \in dots : TRUE
        int == DecimalValue(SubSeq(w, 1, dot - 1))
        frac == TrimZeros(SubSeq(w, dot + 1, Len(w)))
    IN  [t |-> "num", neg |-> neg /\ (int # 0 \/ frac # ""), int |-> int,
         frac |-> frac]

\* this.tokens[this.idx]
Peek(toks, idx) == IF idx < Len(toks) THEN toks[idx + 1] ELSE Undef

\* ParadoxParser._assign(obj, key, value)
Assign(obj, key, value) ==
    IF HasKey(obj, key)
    THEN LET i == IndexOf(obj.keys, key)
             old == obj.vals[i]
         IN  [obj EXCEPT !.vals[i] =
                 IF IsArray(old) THEN List(Append(old.items, value))
                 ELSE List(<<old, value>>)]
    ELSE Map(Append(obj.keys, key), Append(obj.vals, value))

\* obj.items = list: the property is overwritten where it stands, or added.
SetProp(obj, key, value) ==
    IF HasKey(obj, key)
    THEN [obj EXCEPT !.vals[IndexOf(obj.keys, key)] = value]
    ELSE Map(Append(obj.keys, key), Append(obj.vals, value))

\* A thrown TypeError, in place of a value.
Raise == [t |-> "raise"]

\* _parseValue on a token that is no `{`: the value it returns.
ScalarValue(tk) ==
    IF tk = Undef THEN Null
    ELSE CASE tk.type = "string" -> Str(tk.value)
           [] tk.type = "number" -> NumberOf(tk.value)
           [] tk.type = "word" ->
                 IF tk.value = "yes" THEN Bool(TRUE)
                 ELSE IF tk.value = "no" THEN Bool(FALSE)
                 ELSE Str(tk.value)
           [] OTHER -> Str(tk.value)

\* The frames of parse (ret = "top") and of the _parseBlock calls in
\* progress: the obj and list of each, and where its value goes, into the
\* caller's obj under name (ret = "assign") or onto the caller's list
\* (ret = "push").
Frame(ret, name) == [obj |-> EmptyMap, list |-> <<>>, ret |-> ret, name |-> name]

\* The outcome of part of a loop iteration: the token index, the frame, and
\* whether _parseBlock was entered (then child is its frame) or an exception
\* was thrown.
Outcome(idx, frame) ==
    [idx |-> idx, frame |-> frame, open |-> FALSE, child |-> Frame("", ""),
     err |-> FALSE]

\* `const val = this._parseValue(); this._assign(obj, name, val)` with the
\* token index at i.
ParseValueInto(frame, name, toks, i) ==
    LET tk == Peek(toks, i)
    IN  IF tk # Undef /\ tk.type = "{"
        THEN [Outcome(i + 1, frame) EXCEPT
                 !.open = TRUE, !.child = Frame("assign", name)]
        ELSE Outcome(IF tk = Undef THEN i ELSE i + 1,
                     [frame EXCEPT !.obj = Assign(@, name, ScalarValue(tk))])

\* The body of the loop of parse for the token at idx.
TopEntry(toks, idx, frame) ==
    LET tk == Peek(toks, idx)
        nxt == Peek(toks, idx + 1)
    IN  IF tk.type # "word" THEN Outcome(idx + 1, frame)
        ELSE IF nxt # Undef /\ nxt.type = "="
             THEN ParseValueInto(frame, tk.value, toks, idx + 2)
        ELSE Outcome(idx + 1,
                     [frame EXCEPT !.obj = Assign(@, tk.value, Bool(TRUE))])

\* The comparison as it would be read if `operand` were not tested first.
CompareItemUnguarded(name, op, operand) ==
    IF operand = Undef THEN Raise
    ELSE IF operand.type = "string"
         THEN Str(name \o " " \o op \o " \"" \o operand.value \o "\"")
    ELSE Str(name \o " " \o op \o " " \o operand.value)

\* The list item `repr` of a comparison `name op operand`.
CompareItem(name, op, operand) ==
    IF operand = Undef THEN Str(name \o " " \o op)
    ELSE IF operand.type = "string"
         THEN Str(name \o " " \o op \o " \"" \o operand.value \o "\"")
    ELSE Str(name \o " " \o op \o " " \o operand.value)

\* list.push(item)
PushItem(frame, item) == [frame EXCEPT !.list = Append(@, item)]

\* The body of the loop of _parseBlock for a token at idx that is no `}`.
BlockEntry(toks, idx, frame) ==
    LET tk == Peek(toks, idx)
        nxt == Peek(toks, idx + 1)
    IN  IF tk.type = "word"
        THEN IF nxt # Undef /\ nxt.type = "="
             THEN ParseValueInto(frame, tk.value, toks, idx + 2)
             ELSE IF nxt # Undef /\ nxt.type = "op"
             THEN LET operand == Peek(toks, idx + 2)
                      repr == CompareItem(tk.value, nxt.value, operand)
                  IN  IF repr = Raise
                      THEN [Outcome(idx + 2, frame) EXCEPT !.err = TRUE]
                      ELSE Outcome(IF operand = Undef THEN idx + 2
                                   ELSE idx + 3,
                                   PushItem(frame, repr))
             ELSE IF nxt # Undef /\ nxt.type = "{"
             THEN ParseValueInto(frame, tk.value, toks, idx + 1)
             ELSE Outcome(idx + 1, PushItem(frame, Str(tk.value)))
        ELSE IF tk.type = "{"
             THEN [Outcome(idx + 1, frame) EXCEPT
                      !.open = TRUE, !.child = Frame("push", "")]
        ELSE IF tk.type = "string"
             THEN Outcome(idx + 1, PushItem(frame, Str(tk.value)))
        ELSE IF tk.type = "number"
             THEN Outcome(idx + 1, PushItem(frame, NumberOf(tk.value)))
        ELSE Outcome(idx + 1, PushItem(frame, Str(tk.value)))

\* The resolution as it would be if the list part won whenever it is not
\* empty.
BlockValueListFirst(obj, list) ==
    IF list # <<>> \/ obj.keys = <<>> THEN List(list) ELSE obj

\* What _parseBlock returns for its obj and list.
BlockValue(obj, list) ==
    IF obj.keys = <<>> THEN List(list)
    ELSE IF list # <<>> THEN SetProp(obj, "items", List(list))
    ELSE obj

\* The caller's frame once the block of frame `child` has returned `value`.
Deliver(parent, child, value) ==
    IF child.ret = "assign"
    THEN [parent EXCEPT !.obj = Assign(@, child.name, value)]
    ELSE PushItem(parent, value)

\* The frames after the innermost _parseBlock returns.
ReturnBlock(stk) ==
    LET n == Len(stk)
        child == stk[n]
    IN  [SubSeq(stk, 1, n - 1) EXCEPT
            ![n - 1] = Deliver(@, child, BlockValue(child.obj, child.list))]

(***************************************************************************)
(* The state of a run of a builder.                                        *)
(***************************************************************************)
VARIABLES
    builder,            \* "civics" (CivicsBuilder.build) or "origins"
    file,               \* civicsFile / originsFile: [names, data]
    civicsFiles,        \* OriginsBuilder.build's civicsFiles
    filterFn,           \* filterFn: [given, rejects]
    traitsLookup,       \* traitsLookup: null or an object
    defs,               \* defs: [names, recs]
    incompatibilities,  \* the Map of _makeBidirectional
    bpc,                \* where the run is: build, collect, scan, rewrite, done
    bi                  \* the index of the loop at bpc

buildVars ==
    << builder, file, civicsFiles, filterFn, traitsLookup, defs,
       incompatibilities, bpc, bi >>

(***************************************************************************)
(* The state of a run of ParadoxParser.parse.                              *)
(***************************************************************************)
VARIABLES
    input,      \* how the text was made: [kind, ...]
    text,       \* the argument of parse
    src,        \* the text without its comments, which _tokenize reads
    pos,        \* i of _tokenize
    tokens,     \* the tokens read so far (this.tokens once _tokenize returns)
    idx,        \* this.idx
    stack,      \* the frames of parse and of the _parseBlock calls
    ppc,        \* idle, start, tokenize, parse, done or error
    out         \* what parse returned

parserVars == << input, text, src, pos, tokens, idx, stack, ppc, out >>

(***************************************************************************)
(* The state of a call of one function on its own.                         *)
(***************************************************************************)
VARIABLES
    ucall,      \* the call: the function and its arguments
    uret,       \* what it returned
    upc         \* idle, called or returned

unitVars == << ucall, uret, upc >>

vars == << buildVars, parserVars, unitVars >>

\* No function called on its own.
UnitIdle == ucall = [fn |-> "none"] /\ uret = Undef /\ upc = "idle"

\* The parser, not running.
ParserIdle ==
    /\ input = [kind |-> "none"]
    /\ text = "" /\ src = "" /\ pos = 0 /\ tokens = <<>> /\ idx = 0
    /\ stack = <<>> /\ ppc = "idle" /\ out = Undef

\* The builders, not running.
BuildIdle ==
    /\ builder = "none" /\ file = [names |-> <<>>, data |-> <<>>]
    /\ civicsFiles = <<>> /\ filterFn = [given |-> FALSE, rejects |-> {}]
    /\ traitsLookup = Null /\ defs = [names |-> <<>>, recs |-> <<>>]
    /\ incompatibilities = [names |-> <<>>, sets |-> <<>>]
    /\ bpc = "idle" /\ bi = 0

(***************************************************************************)
(* The inputs the model draws from.                                        *)
(***************************************************************************)
CivicNames == {"civic_a", "civic_b", "civic_c"}

OriginNames == {"origin_x", "origin_y"}

IdList(q) == List([i \in DOMAIN q |-> Str(q[i])])

\* What the parser makes of `value = x` and of `value = x value = y`.
ValueOf(q) == Obj1("value", IF Len(q) = 1 THEN Str(q[1]) ELSE IdList(q))

\* civics = { NOR = { value = ... } }
CivicsNor(q) == Obj1("civics", Obj1("NOR", ValueOf(q)))

\* civics = { NOT = { value = ... } }
CivicsNot(q) == Obj1("civics", Obj1("NOT", ValueOf(q)))

ForbidLists ==
    { <<"civic_a">>, <<"civic_b">>, <<"civic_z">>, <<"civic_b", "civic_a">>,
      <<"civic_z", "civic_a">>, <<"civic_c", "civic_c">> }

NoDLC == Obj1("NOT", Obj1("host_has_dlc", Str("Utopia")))

CivicShapes ==
    {EmptyMap}
    \cup {Obj1("possible", CivicsNor(q)) : q \in ForbidLists}
    \cup { Obj2("potential", CivicsNot(<<"civic_b">>),
                "possible", CivicsNor(<<"civic_z", "civic_a">>)),
           Obj1("possible", List(<< CivicsNor(<<"civic_b">>),
                                    CivicsNot(<<"civic_a">>) >>)),
           Obj1("possible",
                Obj2("ethics", Obj1("OR", ValueOf(<<"ethic_a", "ethic_b">>)),
                     "civics", Obj2("value", Str("civic_c"),
                                    "NOT", ValueOf(<<"civic_a">>)))),
           Obj2("playable", NoDLC, "possible", CivicsNor(<<"civic_a">>)),
           Obj1("playable",
                Obj1("NOT", List(<< Obj1("has_ascension_perk", Str("ap_x")),
                                    Obj1("host_has_dlc", Str("Utopia")) >>))),
           Obj2("playable", Obj1("host_has_dlc", Str("Utopia")),
                "possible", CivicsNor(<<"civic_b">>)),
           Obj1("possible",
                Obj1("ethics", Obj2("OR", ValueOf(<<"ethic_a">>),
                                    "value", Str("ethic_a")))),
           Obj1("potential", List(<< CivicsNor(<<"civic_b">>),
                                     CivicsNot(<<"civic_c">>) >>)) }

\* origin = { NOT = { value = o } } and the like, in a civic.
OriginNot(q) == Obj1("origin", Obj1("NOT", ValueOf(q)))

OriginNor(q) == Obj1("origin", Obj1("NOR", ValueOf(q)))

\* The origin key written twice in one block.
OriginTwice ==
    Obj1("origin", List(<< Obj1("NOT", ValueOf(<<"origin_x">>)),
                           Obj1("NOT", ValueOf(<<"origin_y">>)) >>))

CivicOriginShapes ==
    { EmptyMap,
      Obj1("potential", OriginNot(<<"origin_x">>)),
      Obj1("potential", OriginNot(<<"origin_y">>)),
      Obj1("possible", OriginNor(<<"origin_y", "origin_x">>)),
      Obj1("possible", List(<< OriginNot(<<"origin_x">>),
                               CivicsNor(<<"civic_a">>) >>)),
      Obj1("possible", OriginTwice),
      Obj1("potential", OriginTwice),
      Obj1("potential",
           Obj1("origin", Obj1("NOR", List(<< ValueOf(<<"origin_x">>),
                                              ValueOf(<<"origin_y">>) >>)))),
      Obj1("possible", Obj1("origin", ValueOf(<<"origin_x">>))),
      Obj1("potential", OriginNot(<<"origin_z">>)) }

OriginShapes ==
    { EmptyMap,
      Obj1("possible", CivicsNor(<<"civic_b", "civic_a">>)),
      Obj1("potential", List(<< CivicsNor(<<"civic_z">>),
                                CivicsNot(<<"civic_a">>) >>)),
      Obj1("possible", CivicsNor(<<"origin_y">>)),
      Obj2("traits", Obj1("trait", Str("trait_t")),
           "possible", Obj1("species_archetype",
                            Obj1("OR", ValueOf(<<"BIOLOGICAL">>)))),
      Obj1("possible",
           Obj1("ethics", Obj2("OR", ValueOf(<<"ethic_a">>),
                               "value", Str("ethic_a")))),
      Obj1("possible",
           List(<< CivicsNor(<<"civic_a">>),
                   Obj2("ethics", Obj1("OR", ValueOf(<<"ethic_a", "ethic_b">>)),
                        "civics", CivicsNot(<<"civic_b">>)) >>)) }

TraitsLookups ==
    { Null,
      Obj1("trait_t", Obj1("allowed_archetypes",
                           IdList(<<"BIOLOGICAL", "LITHOID">>))),
      Obj1("trait_t", Obj1("allowed_archetypes", Str("LITHOID"))) }

NoFilter == [given |-> FALSE, rejects |-> {}]

Filters == {NoFilter, [given |-> TRUE, rejects |-> {"civic_b", "origin_y"}]}

\* filterFn && !filterFn(name, data)
FilteredOut(f, name) == f.given /\ name \in f.rejects

\* The sequences of n distinct names of a set.
DistinctSeqs(S, n) ==
    {q \in [1..n -> S] : \A i, j \in 1..n : i # j => q[i] # q[j]}

\* The files of at most max entries with names from Names and data from
\* Shapes.
Files(Names, Shapes, max) ==
    UNION { { [names |-> ns, data |-> ds] :
                ns \in DistinctSeqs(Names, n), ds \in [1..n -> Shapes] } :
            n \in 1..max }

\* The civics files handed to OriginsBuilder.build: of one civic, or of two.
CivicsFileChoices ==
    Files({"civic_a"}, CivicOriginShapes, 1)
    \cup { [names |-> <<"civic_b", "civic_a">>, data |-> <<d1, d2>>] :
             d1 \in { Obj1("possible", OriginTwice),
                      Obj1("potential", OriginNot(<<"origin_y">>)) },
             d2 \in { EmptyMap, Obj1("potential", OriginNot(<<"origin_x">>)) } }

CivicsFilesChoices ==
    UNION { [1..n -> CivicsFileChoices] : n \in 0..MaxCivicsFiles }

(***************************************************************************)
(* The builders, one loop iteration at a time.                             *)
(***************************************************************************)
InitBuild ==
    /\ builder \in {"civics", "origins"}
    /\ filterFn \in Filters
    /\ \/ /\ builder = "civics"
          /\ file \in Files(CivicNames, CivicShapes, MaxEntities)
          /\ civicsFiles = <<>>
          /\ traitsLookup = Null
       \/ /\ builder = "origins"
          /\ file \in Files(OriginNames, OriginShapes, MaxEntities)
          /\ civicsFiles \in CivicsFilesChoices
          /\ traitsLookup \in TraitsLookups
    /\ defs = [names |-> <<>>, recs |-> <<>>]
    /\ incompatibilities = EmptyInc
    /\ bpc = "build"
    /\ bi = 1
    /\ ParserIdle
    /\ UnitIdle

\* defs[name] = rec, for a name not yet in defs
DefsPut(d, name, rec) ==
    [names |-> Append(d.names, name), recs |-> Append(d.recs, rec)]

\* One iteration of the loop of CivicsBuilder.build.
CivicsBuildStep ==
    /\ builder = "civics" /\ bpc = "build" /\ bi <= Len(file.names)
    /\ LET civicName == file.names[bi]
           civicData == file.data[bi]
       IN  defs' = IF RequiresNoDLC(civicData) \/ FilteredOut(filterFn, civicName)
                   THEN defs
                   ELSE DefsPut(defs, civicName, CivicsEntry(civicData))
    /\ bi' = bi + 1
    /\ UNCHANGED << parserVars, unitVars >>
    /\ UNCHANGED << builder, file, civicsFiles, filterFn, traitsLookup,
                    incompatibilities, bpc >>

\* One iteration of the loop of OriginsBuilder.build.
OriginsBuildStep ==
    /\ builder = "origins" /\ bpc = "build" /\ bi <= Len(file.names)
    /\ LET originName == file.names[bi]
           originData == file.data[bi]
       IN  defs' = IF FilteredOut(filterFn, originName) THEN defs
                   ELSE DefsPut(defs, originName,
                                OriginsEntry(originData, traitsLookup))
    /\ bi' = bi + 1
    /\ UNCHANGED << parserVars, unitVars >>
    /\ UNCHANGED << builder, file, civicsFiles, filterFn, traitsLookup,
                    incompatibilities, bpc >>

\* The build loop is over: _makeBidirectional is called.
CallMakeBidirectional ==
    /\ bpc = "build" /\ bi > Len(file.names)
    /\ bpc' = "collect"
    /\ bi' = 1
    /\ incompatibilities' = EmptyInc
    /\ UNCHANGED << parserVars, unitVars >>
    /\ UNCHANGED << builder, file, civicsFiles, filterFn, traitsLookup, defs >>

\* One iteration of the first pass of CivicsBuilder._makeBidirectional.
CivicsCollectStep ==
    /\ builder = "civics" /\ bpc = "collect" /\ bi <= Len(defs.names)
    /\ incompatibilities' =
          CivicsCollect(incompatibilities, defs.names[bi],
                        defs.recs[bi].no.civics)
    /\ bi' = bi + 1
    /\ UNCHANGED << parserVars, unitVars >>
    /\ UNCHANGED << builder, file, civicsFiles, filterFn, traitsLookup, defs,
                    bpc >>

\* One iteration of the first pass of OriginsBuilder._makeBidirectional.
OriginsCollectStep ==
    /\ builder = "origins" /\ bpc = "collect" /\ bi <= Len(defs.names)
    /\ incompatibilities' =
          OriginsCollect(incompatibilities, defs.names[bi],
                         defs.recs[bi].no.civics)
    /\ bi' = bi + 1
    /\ UNCHANGED << parserVars, unitVars >>
    /\ UNCHANGED << builder, file, civicsFiles, filterFn, traitsLookup, defs,
                    bpc >>

\* The first pass as it would be if it could be left before every entry of
\* defs is visited.
CollectDoneEarly ==
    /\ bpc = "collect"
    /\ bpc' = IF builder = "civics" THEN "rewrite" ELSE "scan"
    /\ bi' = 1
    /\ UNCHANGED << parserVars, unitVars >>
    /\ UNCHANGED << builder, file, civicsFiles, filterFn, traitsLookup, defs,
                    incompatibilities >>

\* The first pass is over: the civics builder goes on to rewrite, the
\* origins builder to scan the civics files.
CollectDone ==
    /\ bpc = "collect" /\ bi > Len(defs.names)
    /\ bpc' = IF builder = "civics" THEN "rewrite" ELSE "scan"
    /\ bi' = 1
    /\ UNCHANGED << parserVars, unitVars >>
    /\ UNCHANGED << builder, file, civicsFiles, filterFn, traitsLookup, defs,
                    incompatibilities >>

\* One iteration of the second pass of OriginsBuilder._makeBidirectional: one
\* civics file.
OriginsScanStep ==
    /\ bpc = "scan" /\ bi <= Len(civicsFiles)
    /\ incompatibilities' = ScanCivicsFile(incompatibilities, civicsFiles[bi])
    /\ bi' = bi + 1
    /\ UNCHANGED << parserVars, unitVars >>
    /\ UNCHANGED << builder, file, civicsFiles, filterFn, traitsLookup, defs,
                    bpc >>

ScanDone ==
    /\ bpc = "scan" /\ bi > Len(civicsFiles)
    /\ bpc' = "rewrite"
    /\ bi' = 1
    /\ UNCHANGED << parserVars, unitVars >>
    /\ UNCHANGED << builder, file, civicsFiles, filterFn, traitsLookup, defs,
                    incompatibilities >>

\* One iteration of the last pass of either _makeBidirectional.
RewriteStep ==
    /\ bpc = "rewrite" /\ bi <= Len(defs.names)
    /\ defs' = Rewrite(defs, incompatibilities, bi)
    /\ bi' = bi + 1
    /\ UNCHANGED << parserVars, unitVars >>
    /\ UNCHANGED << builder, file, civicsFiles, filterFn, traitsLookup,
                    incompatibilities, bpc >>

\* build returns defs.
ReturnDefs ==
    /\ bpc = "rewrite" /\ bi > Len(defs.names)
    /\ bpc' = "done"
    /\ UNCHANGED << parserVars, unitVars >>
    /\ UNCHANGED << builder, file, civicsFiles, filterFn, traitsLookup, defs,
                    incompatibilities, bi >>

NextBuild ==
    \/ CivicsBuildStep
    \/ OriginsBuildStep
    \/ CallMakeBidirectional
    \/ CivicsCollectStep
    \/ OriginsCollectStep
    \/ CollectDone
    \/ OriginsScanStep
    \/ ScanDone
    \/ RewriteStep
    \/ ReturnDefs

Spec == InitBuild /\ [][NextBuild]_vars

(***************************************************************************)
(* The texts the parser runs are drawn from.                               *)
(***************************************************************************)
LexAlphabet == {"a", "\n", "{", "}", "=", ">", "\"", "#", "\\"}

\* The strings of exactly n characters of a set.
RECURSIVE StringsOf(_, _)
StringsOf(A, n) ==
    IF n = 0 THEN {""} ELSE {w \o c : w \in StringsOf(A, n - 1), c \in A}

SampleTexts ==
    { "x = \"a # b\" # real comment",
      "a = 1 # c\r\nb = { -2.50 \"q\\\"#\" }",
      "k = { a b<=\"s\" } # \"\nk = no",
      "k = { a >",
      "k = { j =",
      "k = { \"s # }",
      "} k = { { a } = }" }

LexTexts ==
    UNION {StringsOf(LexAlphabet, n) : n \in 0..MaxTextLen} \cup SampleTexts

\* An entry of a generated block: its source text, its key ("" for a bare
\* item) and the value it stands for.
Entry(source, key, val) == [source |-> source, key |-> key, val |-> val]

KeyedEntries ==
    { Entry("k = a", "k", Str("a")),
      Entry("k = { a b }", "k", List(<<Str("a"), Str("b")>>)),
      Entry("k = { j = a }", "k", Obj1("j", Str("a"))),
      Entry("j = 1", "j", Num(1)),
      Entry("items = yes", "items", Bool(TRUE)) }

BareEntries ==
    { Entry("a", "", Str("a")),
      Entry("\"s t\"", "", Str("s t")),
      Entry("b > 2", "", Str("b > 2")),
      Entry("{ a }", "", List(<<Str("a")>>)) }

\* A bare word before `{` would be a key: such bodies are not generated.
Unambiguous(body) ==
    \A i \in 1..(Len(body) - 1) :
        ~(body[i].source = "a" /\ body[i + 1].source = "{ a }")

Bodies(E) ==
    {b \in UNION {[1..n -> E] : n \in 0..MaxEntries} : Unambiguous(b)}

\* The entries of a body, one after the other.
RECURSIVE BodyText(_)
BodyText(body) ==
    IF body = <<>> THEN ""
    ELSE Head(body).source \o " " \o BodyText(Tail(body))

\* The generated inputs: a block r = { body } of any entries, and a document
\* of keyed entries.
BlockInputs ==
    {[kind |-> "block", body |-> b, raw |-> ""] :
        b \in Bodies(KeyedEntries \cup BareEntries)}

TopInputs ==
    {[kind |-> "top", body |-> b, raw |-> ""] :
        b \in Bodies(KeyedEntries) \ {<<>>}}

RawTokens == {"{", "}", "=", ">", "k", "a"}

RECURSIVE TokenTexts(_)
TokenTexts(n) ==
    IF n = 0 THEN {""}
    ELSE {w \o c \o " " : w \in TokenTexts(n - 1), c \in RawTokens}

RawInputs ==
    {[kind |-> "raw", body |-> <<>>, raw |-> w] :
        w \in UNION {TokenTexts(n) : n \in 1..MaxTokens}}

\* The `{` less the `}` among the first n tokens.
RECURSIVE BraceDepth(_, _)
BraceDepth(toks, n) ==
    IF n = 0 THEN 0
    ELSE BraceDepth(toks, n - 1)
            + (IF toks[n].type = "{" THEN 1 ELSE IF toks[n].type = "}" THEN -1 ELSE 0)

\* Every `}` closes a `{` before it, and every `{` is closed.
Balanced(toks) ==
    /\ \A n \in 1..Len(toks) : BraceDepth(toks, n) >= 0
    /\ BraceDepth(toks, Len(toks)) = 0

\* A block r = { body } of any tokens with balanced braces, with an entry
\* z = a written after it.
AfterInputs ==
    {[kind |-> "after", body |-> <<>>, raw |-> w] :
        w \in {v \in UNION {TokenTexts(n) : n \in 1..MaxTokens} :
                  Balanced(TokenizeFrom(v, 0, <<>>))}}

\* What an input may end in when its closing braces are missing: nothing
\* more, a block opened inside the block, or a key and a dangling `=`.
OpenEnds == {"", "k = { a ", "j = { ", "k ="}

\* A block r = { body left open at the end of the input.
OpenInputs ==
    {[kind |-> "open", body |-> b, raw |-> e] :
        b \in {c \in Bodies(KeyedEntries \cup BareEntries) : Len(c) < MaxEntries},
        e \in OpenEnds}

TextOf(in) ==
    CASE in.kind = "block" -> "r = { " \o BodyText(in.body) \o "}"
      [] in.kind = "open" -> "r = { " \o BodyText(in.body) \o in.raw
      [] in.kind = "top" -> BodyText(in.body)
      [] in.kind = "after" -> "r = { " \o in.raw \o "} z = a"
      [] OTHER -> in.raw

(***************************************************************************)
(* ParadoxParser.parse, one loop iteration at a time.                      *)
(***************************************************************************)
\* parse(text) is called.
InitLex ==
    /\ text \in LexTexts
    /\ input = [kind |-> "text"]
    /\ src = "" /\ pos = 0 /\ tokens = <<>> /\ idx = 0 /\ stack = <<>>
    /\ ppc = "start" /\ out = Undef
    /\ BuildIdle
    /\ UnitIdle

\* parse(text) has tokenized a generated text: this.idx = 0 is set.
InitParse ==
    /\ input \in BlockInputs \cup TopInputs \cup RawInputs \cup AfterInputs
                \cup OpenInputs
    /\ text = TextOf(input)
    /\ src = StripComments(NormalizeNewlines(text))
    /\ pos = Len(src)
    /\ tokens = Lex(text)
    /\ idx = 0
    /\ stack = <<Frame("top", "")>>
    /\ ppc = "parse" /\ out = Undef
    /\ BuildIdle
    /\ UnitIdle

\* The line breaks are normalized and the comments stripped; _tokenize
\* starts.
StripStep ==
    /\ ppc = "start"
    /\ src' = StripComments(NormalizeNewlines(text))
    /\ pos' = 0
    /\ tokens' = <<>>
    /\ ppc' = "tokenize"
    /\ UNCHANGED << input, text, idx, stack, out >>
    /\ UNCHANGED << buildVars, unitVars >>

\* One iteration of the loop of _tokenize.
TokenizeStep ==
    /\ ppc = "tokenize" /\ pos < Len(src)
    /\ LET r == TokenizeAt(src, pos, tokens)
       IN  pos' = r.i /\ tokens' = r.tokens
    /\ UNCHANGED << input, text, src, idx, stack, ppc, out >>
    /\ UNCHANGED << buildVars, unitVars >>

\* _tokenize returns; this.idx = 0; out = {}.
TokenizeDone ==
    /\ ppc = "tokenize" /\ pos >= Len(src)
    /\ idx' = 0
    /\ stack' = <<Frame("top", "")>>
    /\ ppc' = "parse"
    /\ UNCHANGED << input, text, src, pos, tokens, out >>
    /\ UNCHANGED << buildVars, unitVars >>

\* The outcome of a loop iteration, applied to the innermost frame.
Apply(r) ==
    /\ idx' = r.idx
    /\ ppc' = IF r.err THEN "error" ELSE ppc
    /\ stack' = LET stk == [stack EXCEPT ![Len(stack)] = r.frame]
                IN  IF r.open THEN Append(stk, r.child) ELSE stk
    /\ UNCHANGED << input, text, src, pos, tokens, out >>
    /\ UNCHANGED << buildVars, unitVars >>

\* One iteration of the loop of parse.
TopIter ==
    /\ ppc = "parse" /\ Len(stack) = 1 /\ Peek(tokens, idx) # Undef
    /\ Apply(TopEntry(tokens, idx, stack[1]))

\* The loop of parse ends: parse returns out.
TopDone ==
    /\ ppc = "parse" /\ Len(stack) = 1 /\ Peek(tokens, idx) = Undef
    /\ out' = stack[1].obj
    /\ ppc' = "done"
    /\ UNCHANGED << input, text, src, pos, tokens, idx, stack >>
    /\ UNCHANGED << buildVars, unitVars >>

\* One iteration of the loop of _parseBlock that does not leave it.
BlockIter ==
    /\ ppc = "parse" /\ Len(stack) > 1
    /\ Peek(tokens, idx) # Undef /\ Peek(tokens, idx).type # "}"
    /\ Apply(BlockEntry(tokens, idx, stack[Len(stack)]))

\* _parseBlock consumes `}` and returns.
BlockClose ==
    /\ ppc = "parse" /\ Len(stack) > 1
    /\ Peek(tokens, idx) # Undef /\ Peek(tokens, idx).type = "}"
    /\ idx' = idx + 1
    /\ stack' = ReturnBlock(stack)
    /\ UNCHANGED << input, text, src, pos, tokens, ppc, out >>
    /\ UNCHANGED << buildVars, unitVars >>

\* _parseBlock finds the end of the input and returns.
BlockEOF ==
    /\ ppc = "parse" /\ Len(stack) > 1 /\ Peek(tokens, idx) = Undef
    /\ stack' = ReturnBlock(stack)
    /\ UNCHANGED << input, text, src, pos, tokens, idx, ppc, out >>
    /\ UNCHANGED << buildVars, unitVars >>

NextParse ==
    \/ TopIter
    \/ TopDone
    \/ BlockIter
    \/ BlockClose
    \/ BlockEOF

NextLex ==
    \/ StripStep
    \/ TokenizeStep
    \/ TokenizeDone
    \/ NextParse

\* parse on a generated text, from the first token on.
SpecParse == InitParse /\ [][NextParse]_vars

\* parse on a text, from the call on.  No step of parse waits for anything:
\* a run goes on until parse returns.
SpecLex == InitLex /\ [][NextLex]_vars /\ WF_vars(NextLex)

(***************************************************************************)
(* The calls of one function on its own, and the values they are made on.  *)
(***************************************************************************)
\* obj with key k set to v, when v is there at all.
WithKey(obj, k, v) ==
    IF v = Undef THEN obj ELSE Map(Append(obj.keys, k), Append(obj.vals, v))

\* The node of a facet: its OR, NOR, NOT and value sub-nodes.
FacetNode(or, nor, not, value) ==
    WithKey(WithKey(WithKey(WithKey(EmptyMap, "OR", or), "NOR", nor),
                    "NOT", not), "value", value)

OrChoices ==
    { Undef, ValueOf(<<"a", "b">>), ValueOf(<<"a">>), EmptyMap,
      List(<< ValueOf(<<"a">>), EmptyMap, ValueOf(<<"b", "c">>) >>),
      IdList(<<"a", "b">>) }

NorChoices == {Undef, ValueOf(<<"c">>), ValueOf(<<"c", "a">>)}

NotChoices ==
    { Undef, ValueOf(<<"d">>),
      List(<< ValueOf(<<"d">>), ValueOf(<<"a">>) >>) }

ValueChoices == {Undef, Str("e"), IdList(<<"e", "a">>)}

FacetNodes ==
    { FacetNode(or, nor, not, value) :
        or \in OrChoices, nor \in NorChoices, not \in NotChoices,
        value \in ValueChoices }

\* The keys of a condition block: those _extractReqs knows, and one it does
\* not.
ConditionKeys ==
    { "ethics", "authority", "authorities", "civics", "species_class",
      "species_archetype", "species_archetypes", "graphical_culture",
      "has_policy" }

\* The yes and no a call of _extractReqs starts from: empty, or holding what
\* an earlier block left.
StartReqs(lists) ==
    { [yes |-> lists, no |-> lists],
      [yes |-> [f \in DOMAIN lists |-> <<Atom("p"), Group(<<"q", "r">>)>>],
       no |-> [f \in DOMAIN lists |-> <<"q">>]] }

ListsOf(b) == IF b = "civics" THEN CivicsEmptyLists ELSE OriginsEmptyLists

(***************************************************************************)
(* TraitsBuilder.                                                          *)
(***************************************************************************)
\* _extractCost(data).cost, for data that has no cost or a number as cost
\* (the traits of the model have no other).
TraitCost(data) ==
    IF Get(data, "cost").t = "num" THEN Get(data, "cost") ELSE Num(0)

\* _extractOpposites(data)
ExtractOpposites(data) ==
    LET o == Get(data, "opposites")
    IN  IF ~Truthy(o) THEN <<>>
        ELSE IF o.t = "str" THEN <<o>>
        ELSE IF IsArray(o) THEN o.items
        ELSE <<>>

\* data.initial === false || data.initial === 'no'
NotInitial(data) ==
    Get(data, "initial") = Bool(FALSE) \/ Get(data, "initial") = Str("no")

\* The traitDef of build: the traits of the model have no species class and
\* no cost modifiers, so neither field is set.
TraitDef(data) ==
    Obj2("cost", TraitCost(data), "no", List(ExtractOpposites(data)))

\* The first pass of build from trait i on.
RECURSIVE TraitsExtract(_, _, _, _)
TraitsExtract(parsedData, f, i, result) ==
    IF i > Len(parsedData.keys) THEN result
    ELSE LET id == parsedData.keys[i]
             data == parsedData.vals[i]
         IN  IF NotInitial(data) \/ FilteredOut(f, id)
             THEN TraitsExtract(parsedData, f, i + 1, result)
             ELSE TraitsExtract(parsedData, f, i + 1,
                                SetProp(result, id, TraitDef(data)))

\* The push as it would be if only the last element of the list were
\* tested.
AddOppositeUnlessLast(list, id) ==
    IF list # <<>> /\ list[Len(list)] = Str(id) THEN list
    ELSE Append(list, Str(id))

\* if (!list.includes(id)) list.push(id)
AddOpposite(list, id) ==
    IF Str(id) \in SeqToSet(list) THEN list ELSE Append(list, Str(id))

\* The second pass of _makeBidirectional from opposite j of definition i
\* on; def.no is read as it is at that moment.
RECURSIVE TraitsMakeBidirectional(_, _, _)
TraitsMakeBidirectional(definitions, i, j) ==
    IF i > Len(definitions.keys) THEN definitions
    ELSE LET id == definitions.keys[i]
             oppositeTraits == Get(definitions.vals[i], "no").items
         IN  IF j > Len(oppositeTraits)
             THEN TraitsMakeBidirectional(definitions, i + 1, 1)
             ELSE LET oppositeId == oppositeTraits[j]
                  IN  IF oppositeId.t = "str" /\ HasKey(definitions, oppositeId.s)
                      THEN LET oppositeDef == Get(definitions, oppositeId.s)
                               no == AddOpposite(Get(oppositeDef, "no").items, id)
                           IN  TraitsMakeBidirectional(
                                   SetProp(definitions, oppositeId.s,
                                           SetProp(oppositeDef, "no", List(no))),
                                   i, j + 1)
                      ELSE TraitsMakeBidirectional(definitions, i, j + 1)

\* TraitsBuilder.build(parsedData, filterFn)
TraitsBuild(parsedData, f) ==
    TraitsMakeBidirectional(TraitsExtract(parsedData, f, 1, EmptyMap), 1, 1)

\* Array.isArray(data.opposites) ? data.opposites : [data.opposites], and
\* nothing when data.opposites is falsy.
OppositesArray(data) ==
    LET o == Get(data, "opposites")
    IN  IF ~Truthy(o) THEN <<>> ELSE IF IsArray(o) THEN o.items ELSE <<o>>

\* applyBidirectionalToParsedData from opposite j of trait i on.
RECURSIVE ApplyBidirectional(_, _, _)
ApplyBidirectional(parsedData, i, j) ==
    IF i > Len(parsedData.keys) THEN parsedData
    ELSE LET id == parsedData.keys[i]
             opposites == OppositesArray(parsedData.vals[i])
         IN  IF j > Len(opposites)
             THEN ApplyBidirectional(parsedData, i + 1, 1)
             ELSE LET oppositeId == opposites[j]
                  IN  IF oppositeId.t = "str" /\ HasKey(parsedData, oppositeId.s)
                      THEN LET oppositeData == Get(parsedData, oppositeId.s)
                               list == AddOpposite(OppositesArray(oppositeData), id)
                           IN  ApplyBidirectional(
                                   SetProp(parsedData, oppositeId.s,
                                           SetProp(oppositeData, "opposites",
                                                   List(list))),
                                   i, j + 1)
                      ELSE ApplyBidirectional(parsedData, i, j + 1)

\* TraitsBuilder.applyBidirectionalToParsedData(parsedData)
ApplyBidirectionalToParsedData(parsedData) ==
    ApplyBidirectional(parsedData, 1, 1)

\* The traits of a file, and a trait no file has.
TraitOrder == << "trait_a", "trait_b", "trait_c", "trait_d" >>

TraitIds == {TraitOrder[i] : i \in 1..MaxTraits}

TraitNames == TraitIds \cup {"trait_z"}

\* What a trait says of its opposites: nothing, one name, a list of names,
\* or a block that is no list.
OppositesChoices ==
    {Undef, List(<<>>), Obj1("k", Str("trait_a"))}
    \cup {Str(n) : n \in TraitNames}
    \cup {List(<<Str(n)>>) : n \in TraitNames}
    \cup {List(<<Str("trait_z"), Str(n)>>) : n \in TraitIds}
    \cup {List(<<Str(n), Str("trait_z")>>) : n \in TraitIds}
    \cup {List(<<Str("trait_b"), Str("trait_a")>>)}

TraitShapes ==
    {WithKey(EmptyMap, "opposites", o) : o \in OppositesChoices}
    \cup { Obj1("initial", Bool(FALSE)),
           Obj2("initial", Str("no"), "opposites", Str("trait_a")),
           Obj2("initial", Bool(FALSE), "opposites", List(<<Str("trait_b")>>)),
           Obj2("initial", Bool(TRUE), "opposites", Str("trait_b")),
           Obj2("cost", Num(2), "opposites", List(<<Str("trait_a")>>)) }

\* The shapes the traits of a file of more than two traits are drawn from.
CoreTraitShapes ==
    {EmptyMap, Obj1("initial", Bool(FALSE))}
    \cup {Obj1("opposites", Str(n)) : n \in TraitIds}
    \cup {Obj1("opposites", List(<<Str(n), Str("trait_z")>>)) : n \in TraitIds}

ParsedTraits ==
    UNION { { Map(ids, ds) :
                ids \in DistinctSeqs(TraitIds, n),
                ds \in [1..n -> IF n <= 2 THEN TraitShapes ELSE CoreTraitShapes] } :
            n \in 1..MaxTraits }

TraitFilters == {NoFilter, [given |-> TRUE, rejects |-> {"trait_b"}]}

\* build(parsedData, filterFn) and applyBidirectionalToParsedData(parsedData)
\* of a TraitsBuilder.
TraitsCalls ==
    { [fn |-> "build", builder |-> "traits", x |-> pd, filterFn |-> f,
       req |-> [yes |-> CivicsEmptyLists, no |-> CivicsEmptyLists]] :
        pd \in ParsedTraits, f \in TraitFilters }
    \cup
    { [fn |-> "applyBidirectionalToParsedData", builder |-> "traits", x |-> pd,
       filterFn |-> NoFilter,
       req |-> [yes |-> CivicsEmptyLists, no |-> CivicsEmptyLists]] :
        pd \in ParsedTraits }

\* this._extractReqs(node, yes, no) of a builder, on a block of one key.
ExtractCalls ==
    { [fn |-> "_extractReqs", builder |-> b, x |-> Obj1(key, node),
       filterFn |-> NoFilter, req |-> req] :
        b \in {"civics", "origins"}, key \in ConditionKeys,
        node \in FacetNodes, req \in StartReqs(CivicsEmptyLists) }

\* The value trees _gather is called on: leaves, lists and mappings of
\* leaves, and lists and mappings of those.
TreeLeaves == {Str("a"), Str("b"), Num(7), Num(-12), Bool(TRUE), Null}

TreeKeys == {"value", "k", "j"}

ListsOver(T) == {List(q) : q \in UNION {[1..n -> T] : n \in 0..MaxWidth}}

MapsOver(T) ==
    UNION { { Map(ks, vs) : ks \in DistinctSeqs(TreeKeys, n), vs \in [1..n -> T] } :
            n \in 0..MaxWidth }

Trees1 == TreeLeaves \cup ListsOver(TreeLeaves) \cup MapsOver(TreeLeaves)

Trees2 ==
    Trees1
    \cup {List(<<t>>) : t \in Trees1}
    \cup {List(<<l, t>>) : l \in {Str("b"), Num(7)}, t \in Trees1}
    \cup {Obj1(k, t) : k \in {"value", "k"}, t \in Trees1}
    \cup {Obj2("k", Str("b"), "value", t) : t \in Trees1}
    \cup {Obj2("j", t, "k", Num(7)) : t \in Trees1}

\* this._gather(x) of a builder.
GatherCalls ==
    { [fn |-> "_gather", builder |-> b, x |-> t, filterFn |-> NoFilter,
       req |-> [yes |-> CivicsEmptyLists, no |-> CivicsEmptyLists]] :
        b \in {"civics", "origins", "ethics"}, t \in Trees2 }

InitUnit ==
    /\ ucall \in ExtractCalls \cup GatherCalls \cup TraitsCalls
    /\ uret = Undef
    /\ upc = "called"
    /\ BuildIdle
    /\ ParserIdle

\* The lists a call starts from, for the facets of its builder.
ReqOf(c) ==
    [yes |-> [f \in DOMAIN ListsOf(c.builder) |-> c.req.yes["civics"]],
     no |-> [f \in DOMAIN ListsOf(c.builder) |-> c.req.no["civics"]]]

\* _extractReqs(node, yes, no) runs and returns.
ExtractReqsCall ==
    /\ upc = "called" /\ ucall.fn = "_extractReqs"
    /\ uret' = IF ucall.builder = "civics"
               THEN CivicsExtractReqs(ucall.x, ReqOf(ucall))
               ELSE OriginsExtractReqs(ucall.x, ReqOf(ucall))
    /\ upc' = "returned"
    /\ UNCHANGED ucall
    /\ UNCHANGED << buildVars, parserVars >>

\* _gather(x) runs and returns.
GatherCall ==
    /\ upc = "called" /\ ucall.fn = "_gather"
    /\ uret' = IF ucall.builder = "ethics" THEN GatherEthics(ucall.x)
               ELSE Gather(ucall.x)
    /\ upc' = "returned"
    /\ UNCHANGED ucall
    /\ UNCHANGED << buildVars, parserVars >>

\* TraitsBuilder.build(parsedData, filterFn) runs and returns.
TraitsBuildCall ==
    /\ upc = "called" /\ ucall.fn = "build"
    /\ uret' = TraitsBuild(ucall.x, ucall.filterFn)
    /\ upc' = "returned"
    /\ UNCHANGED ucall
    /\ UNCHANGED << buildVars, parserVars >>

\* TraitsBuilder.applyBidirectionalToParsedData(parsedData) runs and
\* returns.
ApplyBidirectionalCall ==
    /\ upc = "called" /\ ucall.fn = "applyBidirectionalToParsedData"
    /\ uret' = ApplyBidirectionalToParsedData(ucall.x)
    /\ upc' = "returned"
    /\ UNCHANGED ucall
    /\ UNCHANGED << buildVars, parserVars >>

NextUnit ==
    \/ ExtractReqsCall
    \/ GatherCall
    \/ TraitsBuildCall
    \/ ApplyBidirectionalCall

\* A function of the builders called on its own.
SpecUnit == InitUnit /\ [][NextUnit]_vars

(***************************************************************************)
(* What the claims speak of.                                               *)
(***************************************************************************)
Keys == SeqToSet(defs.names)

\* The input data of an entity of the file being built.
DataOf(name) == file.data[IndexOf(file.names, name)]

\* An entity's { yes, no } as extracted, before the closure.
Extracted(name) ==
    IF builder = "civics" THEN CivicsEntry(DataOf(name))
    ELSE OriginsEntry(DataOf(name), traitsLookup)

\* The civics an entity declares forbidden: its no.civics before the closure.
Declared(name) == SeqToSet(Extracted(name).no.civics)

\* The returned no.civics of a key of defs.
NoCivics(name) == defs.recs[IndexOf(defs.names, name)].no.civics

Done == bpc = "done"

\* C1: after CivicsBuilder.build, for any two civics A and B that are keys of
\* the returned definitions, if A's extracted no.civics contains B then B's
\* returned no.civics contains A, and A's still contains B.
C1_SymmetricClosure ==
    (builder = "civics" /\ Done) =>
        \A A \in Keys : \A B \in Keys :
            B \in Declared(A) =>
                /\ A \in SeqToSet(NoCivics(B))
                /\ B \in SeqToSet(NoCivics(A))

\* A returned B forbids A although only A declared anything about B.
C1_Witness ==
    /\ builder = "civics" /\ Done
    /\ \E A \in Keys : \E B \in Keys :
          /\ A # B
          /\ B \in Declared(A)
          /\ A \notin Declared(B)
          /\ A \in SeqToSet(NoCivics(B))

\* The blocks of a potential / possible section as the claim C2 counts them:
\* the potential block, the possible block or blocks.
SectionBlocks(section) ==
    IF IsArray(section) THEN SeqToSet(section.items)
    ELSE IF section.t = "map" THEN {section}
    ELSE {}

\* The origin sub-nodes of a condition block: the value of its origin key, or
\* each of the values when the key is written more than once.
OriginNodes(block) ==
    LET origin == Get(block, "origin")
    IN  IF IsArray(origin) THEN SeqToSet(origin.items)
        ELSE IF origin.t = "map" THEN {origin}
        ELSE {}

\* The civic's potential block or possible block(s) contain an origin
\* sub-node whose NOT or NOR gathers O.
CivicForbidsOrigin(civicData, O) ==
    \E block \in (IF Get(civicData, "potential").t = "map"
                  THEN {Get(civicData, "potential")} ELSE {})
                    \cup SectionBlocks(Get(civicData, "possible")) :
        \E node \in OriginNodes(block) :
            O \in SeqToSet(Gather(Get(node, "NOT")))
                    \cup SeqToSet(Gather(Get(node, "NOR")))

\* C2: after OriginsBuilder.build, for every origin O that is a key of the
\* returned definitions and every civic C of the supplied civicsFiles whose
\* potential block or possible block(s) contain an origin sub-node whose NOT
\* or NOR gathers O, the returned O.no.civics contains C.
C2_CrossCollectionClosure ==
    (builder = "origins" /\ Done) =>
        \A O \in Keys : \A f \in DOMAIN civicsFiles :
            \A c \in DOMAIN civicsFiles[f].names :
                CivicForbidsOrigin(civicsFiles[f].data[c], O) =>
                    civicsFiles[f].names[c] \in SeqToSet(NoCivics(O))

\* Strictly ascending in the order sort() uses: sorted and duplicate-free.
StrictlyAscending(q) ==
    \A i \in DOMAIN q : \A j \in DOMAIN q : i < j => StrLess(q[i], q[j])

\* The closure set of an entity, from the inputs: what it declares, the
\* civics that declare it (civics builder), and the civics of the civics
\* files whose origin restrictions name it (origins builder).
ClosureSet(name) ==
    Declared(name)
    \cup (IF builder = "civics" THEN {A \in Keys : name \in Declared(A)}
          ELSE UNION { { civicsFiles[f].names[c] :
                           c \in { k \in DOMAIN civicsFiles[f].names :
                                     name \in SeqToSet(
                                        ExtractOriginRestrictions(
                                           civicsFiles[f].data[k])) } } :
                       f \in DOMAIN civicsFiles })

\* C3: after the closure, every returned entity's no.civics is in ascending
\* sorted order, holds no identifier twice, and is exactly the content of the
\* entity's closure set.
C3_SortedClosureList ==
    Done =>
        \A name \in Keys :
            /\ StrictlyAscending(NoCivics(name))
            /\ SeqToSet(NoCivics(name)) = ClosureSet(name)
            /\ SeqToSet(NoCivics(name))
                  = SeqToSet(IncGet(incompatibilities, name))

\* An entity returned with a list the closure both extended and reordered.
C3_Witness ==
    /\ Done
    /\ \E name \in Keys :
          /\ Len(NoCivics(name)) >= 2
          /\ NoCivics(name) # IncGet(incompatibilities, name)
          /\ SeqToSet(NoCivics(name)) # Declared(name)

\* The entities of the input file that pass the pre-filters (the DLC filter
\* of the civics builder, and filterFn), in file order.
Kept(name) ==
    /\ ~(filterFn.given /\ name \in filterFn.rejects)
    /\ builder = "civics" => ~RequiresNoDLC(DataOf(name))

\* C4: an identifier Z that A forbids and that is no key of the definitions
\* stays in A's no.civics and gets no entry; the keys of the definitions are
\* the input entities that passed the pre-filters, before, during and after
\* the closure.
C4_DanglingReferences ==
    /\ bpc # "build" => defs.names = SelectSeq(file.names, Kept)
    /\ Done => \A A \in Keys : \A Z \in Declared(A) :
                  Z \notin Keys => Z \in SeqToSet(NoCivics(A))

\* A returned entity forbids an identifier that is not an entity.
C4_Witness ==
    /\ Done
    /\ \E A \in Keys : \E Z \in Declared(A) :
          Z \notin Keys /\ Z \in SeqToSet(NoCivics(A))

\* The civic's playable block contains a NOT block with a host_has_dlc entry.
PlayableNotDLC(civicData) ==
    LET not == Get(Get(civicData, "playable"), "NOT")
    IN  \E b \in (IF IsArray(not) THEN SeqToSet(not.items) ELSE {not}) :
            HasKey(b, "host_has_dlc")

\* C5: a civic whose playable block contains a NOT block with a host_has_dlc
\* entry is never a key of the definitions CivicsBuilder.build returns, and
\* a returned civic that names it in its civics NOR/NOT still lists it.
C5_DLCPreFilter ==
    builder = "civics" =>
        \A i \in DOMAIN file.names :
            PlayableNotDLC(file.data[i]) =>
                /\ file.names[i] \notin Keys
                /\ Done => \A A \in Keys :
                              file.names[i] \in Declared(A) =>
                                  file.names[i] \in SeqToSet(NoCivics(A))

\* A civic was pruned for its DLC condition and a returned civic lists it.
C5_Witness ==
    /\ builder = "civics" /\ Done
    /\ \E i \in DOMAIN file.names : \E A \in Keys :
          /\ PlayableNotDLC(file.data[i])
          /\ file.names[i] \in Declared(A)
          /\ file.names[i] \in SeqToSet(NoCivics(A))

\* The mapping a generated text describes: the value of r, or the document.
Container == IF input.kind = "block" THEN Get(out, "r") ELSE out

\* parse has returned on a generated block or document.
Generated == ppc = "done" /\ input.kind \in {"block", "top"}

IsKeyed(e) == e.key # ""

IsBare(e) == e.key = ""

KeyedOf(body) == SelectSeq(body, IsKeyed)

BareOf(body) == SelectSeq(body, IsBare)

ValsOf(q) == [i \in DOMAIN q |-> q[i].val]

\* The values written for key k in a body, in source order.
AssignedTo(body, k) ==
    ValsOf(SelectSeq(body, LAMBDA e : e.key = k))

EntryKeys == {e.key : e \in KeyedEntries}

\* C6: a key assigned n >= 2 times in one block or at top level, with values
\* v1..vn of any kind (scalar, mapping or list), parses to the sequence
\* [v1, ..., vn] of exactly n elements in source order.  (The key `items` of
\* a block that also has bare items is left to C8.)
C6_DuplicateKeyCoalescing ==
    Generated =>
        \A k \in EntryKeys :
            LET vs == AssignedTo(input.body, k)
            IN  (Len(vs) >= 2
                   /\ ~(k = "items" /\ BareOf(input.body) # <<>>)) =>
                    Get(Container, k) = List(vs)

\* C7: a block with no keyed entries parses to the sequence of its bare
\* items (an empty block to the empty sequence); a block with only keyed
\* entries parses to a mapping with exactly those keys; a block with both
\* parses to a mapping whose items key holds the bare items in source order.
C7_ListVsMapping ==
    (ppc = "done" /\ input.kind = "block") =>
        LET keyed == KeyedOf(input.body)
            bare == BareOf(input.body)
            r == Get(out, "r")
        IN  /\ keyed = <<>> => r = List(ValsOf(bare))
            /\ keyed # <<>> =>
                  /\ r.t = "map"
                  /\ SeqToSet(r.keys) \ {"items"}
                        = {keyed[i].key : i \in DOMAIN keyed} \ {"items"}
            /\ (keyed # <<>> /\ bare = <<>>) =>
                  SeqToSet(r.keys) = {keyed[i].key : i \in DOMAIN keyed}
            /\ (keyed # <<>> /\ bare # <<>>) =>
                  Get(r, "items") = List(ValsOf(bare))

\* A block of keyed entries and several bare items was parsed to a mapping
\* that holds the bare items under items.
C7_Witness ==
    /\ ppc = "done" /\ input.kind = "block"
    /\ KeyedOf(input.body) # <<>>
    /\ Len(BareOf(input.body)) >= 2
    /\ Get(out, "r").t = "map"
    /\ Get(Get(out, "r"), "items") = List(ValsOf(BareOf(input.body)))

\* The mapping the keyed entries of a body coalesce to, by _assign.
RECURSIVE Coalesced(_)
Coalesced(keyed) ==
    IF keyed = <<>> THEN EmptyMap
    ELSE LET e == keyed[Len(keyed)]
         IN  Assign(Coalesced(SubSeq(keyed, 1, Len(keyed) - 1)), e.key, e.val)

\* C8: a block with both keyed entries and bare items parses to a mapping
\* from which every keyed entry's value (one keyed `items` included) and
\* every bare item can still be read: each key holds what its assignments
\* coalesce to, and the bare items are held in source order.
C8_NoDataDiscarded ==
    (ppc = "done" /\ input.kind = "block") =>
        LET keyed == KeyedOf(input.body)
            bare == BareOf(input.body)
            r == Get(out, "r")
        IN  (keyed # <<>> /\ bare # <<>>) =>
                /\ \A i \in DOMAIN keyed :
                      Get(r, keyed[i].key) = Get(Coalesced(keyed), keyed[i].key)
                /\ \E k \in SeqToSet(r.keys) : Get(r, k) = List(ValsOf(bare))

HasChar(s, c) == \E i \in 1..Len(s) : SubSeq(s, i, i) = c

\* A text that holds no quote, without its comments: each line up to its
\* first `#`.
RECURSIVE Uncommented(_, _)
Uncommented(s, skipping) ==
    IF s = "" THEN ""
    ELSE LET c == SubSeq(s, 1, 1)
             rest == SubSeq(s, 2, Len(s))
         IN  IF c = "\n" THEN c \o Uncommented(rest, FALSE)
             ELSE IF skipping \/ c = "#" THEN Uncommented(rest, TRUE)
             ELSE c \o Uncommented(rest, FALSE)

\* C9: for any text, a `#` inside a quoted string survives comment stripping
\* and reaches the string token's value, and a `#` outside any quoted string
\* removes everything up to, not including, the end of its line.  So a `#`
\* is left in no token but a string token; a text without quotes is read as
\* its lines cut at their first `#`; and `x = "a # b" # real comment` parses
\* x to the string `a # b`.
C9_QuoteCommentInteraction ==
    ppc = "done" =>
        /\ \A k \in DOMAIN tokens :
              HasChar(tokens[k].value, "#") => tokens[k].type = "string"
        /\ ~HasChar(text, "\"") =>
              src = Uncommented(NormalizeNewlines(text), FALSE)
        /\ text = "x = \"a # b\" # real comment" =>
              out = Obj1("x", Str("a # b"))

\* The number of tokens of a type among the first n.
RECURSIVE CountType(_, _, _)
CountType(toks, type, n) ==
    IF n = 0 THEN 0
    ELSE CountType(toks, type, n - 1) + (IF toks[n].type = type THEN 1 ELSE 0)

\* How far a run of parse is: the phase it is in, and what is left of the
\* phase (the characters not yet read; the tokens not yet consumed, counted
\* twice, and the calls not yet returned).
Phase ==
    CASE ppc = "start" -> 0 [] ppc = "tokenize" -> 1 [] ppc = "parse" -> 2
      [] OTHER -> 3

Left ==
    CASE ppc = "tokenize" -> Len(src) - pos
      [] ppc = "parse" -> 2 * (Len(tokens) - idx) + Len(stack)
      [] OTHER -> 0

\* C10: parse terminates without raising on every input, unbalanced braces,
\* a trailing `=` and an unterminated quote included: no exception is thrown,
\* every iteration of the tokenizer loop advances the character position,
\* every iteration of the top-level and block loops consumes at least one
\* token (a block loop that finds `}` or the end of the input returns), the
\* token cursor never exceeds the token count, and when parse returns all
\* tokens have been consumed.  Termination: once the comments are stripped
\* (a step without precondition) and until parse has returned, a step can be
\* taken, and every step brings the run nearer to its end.
C10_ParseTerminates ==
    /\ [](ppc # "error")
    /\ [](pos <= Len(src) /\ idx <= Len(tokens) /\ Left >= 0)
    /\ [](ppc = "done" => idx = Len(tokens))
    /\ [](ppc \notin {"start", "done"} =>
             ENABLED (TokenizeStep \/ TokenizeDone \/ NextParse))
    /\ [][(ppc = "tokenize" /\ ppc' = "tokenize") => pos' > pos]_vars
    /\ [][(ppc = "parse" /\ ppc' = "parse") =>
             \/ idx' > idx
             \/ Len(stack') < Len(stack) /\ idx' = idx /\ idx = Len(tokens)]_vars
    /\ [][Phase' > Phase \/ (Phase' = Phase /\ Left' < Left)]_vars

\* parse has returned on a text that opens a block and never closes it, and
\* that ends in `=`, in a comparison operator or in an unterminated quote.
C10_Witness ==
    /\ ppc = "done" /\ Len(tokens) >= 4
    /\ tokens[1].type = "word" /\ tokens[2].type = "=" /\ tokens[3].type = "{"
    /\ CountType(tokens, "}", Len(tokens)) = 0
    /\ HasKey(out, tokens[1].value)
    /\ \/ tokens[Len(tokens)].type \in {"=", "op"}
       \/ /\ tokens[Len(tokens)].type = "string"
          /\ CharAt(src, Len(src) - 1) # "\""

\* _extractReqs has returned from a call on a block of one key.
Extracted1 == upc = "returned" /\ ucall.fn = "_extractReqs"

\* The key of that block, the facet it feeds ("" for none), and its node.
CallKey == ucall.x.keys[1]

CallFacet ==
    IF ucall.builder = "civics" THEN CivicsFacet(CallKey)
    ELSE OriginsFacet(CallKey)

CallNode == ucall.x.vals[1]

\* The OR blocks under a facet node: the OR sub-node, or its elements when
\* it is an array (OR written more than once, or an OR block of bare items,
\* which the parser delivers as an array too).
OrBlocksUnder(node) ==
    LET or == Get(node, "OR")
    IN  IF or = Undef THEN <<>> ELSE IF IsArray(or) THEN or.items ELSE <<or>>

IsGroup(item) == item.g

IsBareAtom(item) == ~item.g

NotEmptyGroup(item) == item.ids # <<>>

\* One AlternativeGroup for each OR block that gathers an identifier.
GroupsUnder(node) ==
    LET blocks == OrBlocksUnder(node)
    IN  SelectSeq([i \in DOMAIN blocks |-> Group(Gather(blocks[i]))],
                  NotEmptyGroup)

\* What a call appended to a list that held `before`.
Appended(before, after) == SubSeq(after, Len(before) + 1, Len(after))

KeepsPrefix(before, after) ==
    Len(after) >= Len(before) /\ SubSeq(after, 1, Len(before)) = before

C12_NorNotExtraction ==
    Extracted1 =>
        /\ CallFacet # "" =>
              uret.no[CallFacet]
                 = ReqOf(ucall).no[CallFacet]
                      \o Gather(Get(CallNode, "NOR"))
                      \o Gather(Get(CallNode, "NOT"))
        /\ \A f \in DOMAIN uret.no :
              \A i \in DOMAIN uret.no[f] : uret.no[f][i] \in STRING

\* A facet node with a NOR and a NOT sub-node was handled on a forbidden
\* list that held an identifier, and the list now holds all of them.
C12_Witness ==
    /\ Extracted1 /\ CallFacet # ""
    /\ ReqOf(ucall).no[CallFacet] # <<>>
    /\ Gather(Get(CallNode, "NOR")) # <<>>
    /\ Len(Gather(Get(CallNode, "NOT"))) >= 2
    /\ Len(uret.no[CallFacet])
          = Len(ReqOf(ucall).no[CallFacet])
               + Len(Gather(Get(CallNode, "NOR")))
               + Len(Gather(Get(CallNode, "NOT")))

\* The returned yes of a key of defs.
Yes(name) == defs.recs[IndexOf(defs.names, name)].yes

IsSingleGroup(item) == item.g /\ Len(item.ids) = 1

\* C13: in the result of OriginsBuilder.build no required list holds a group
\* of exactly one identifier: every such group, from an OR block or from a
\* force-added trait's archetypes, is replaced where it stood by that
\* identifier, and groups of two or more stay nested.  CivicsBuilder.build
\* keeps single-element groups nested.
C13_SingleGroupFlattening ==
    Done => \A name \in Keys :
        IF builder = "origins"
        THEN LET pre == OriginsBeforeFlatten(DataOf(name), traitsLookup).yes
             IN  \A f \in DOMAIN pre :
                    /\ Len(Yes(name)[f]) = Len(pre[f])
                    /\ \A i \in DOMAIN pre[f] :
                          /\ ~IsSingleGroup(Yes(name)[f][i])
                          /\ Yes(name)[f][i]
                                = IF IsSingleGroup(pre[f][i])
                                  THEN Atom(pre[f][i].ids[1]) ELSE pre[f][i]
        ELSE Yes(name) = Extracted(name).yes

\* An origin returned with two identifiers where its OR block and its
\* force-added trait each gave a group of one.
C13_Witness ==
    /\ Done /\ builder = "origins"
    /\ \E name \in Keys :
          LET pre == OriginsBeforeFlatten(DataOf(name), traitsLookup).yes
          IN  /\ Len(pre.species_archetype) = 2
              /\ \A i \in 1..2 : IsSingleGroup(pre.species_archetype[i])
              /\ Yes(name).species_archetype
                    = <<Atom("BIOLOGICAL"), Atom("LITHOID")>>

\* Gathering as the claim C14 words it: a string yields itself, a list the
\* gatherings of its elements one after the other, a mapping with a value
\* key the gathering of that key's value alone, a mapping without one the
\* gatherings of all its values, anything else nothing.  numbers says
\* whether a number yields its decimal string instead.
RECURSIVE Flat(_, _)
RECURSIVE FlatSeq(_, _)
FlatSeq(q, numbers) ==
    IF q = <<>> THEN <<>>
    ELSE FlatSeq(SubSeq(q, 1, Len(q) - 1), numbers) \o Flat(q[Len(q)], numbers)

Flat(x, numbers) ==
    IF x.t = "str" THEN <<x.s>>
    ELSE IF x.t = "list" THEN FlatSeq(x.items, numbers)
    ELSE IF x.t = "map"
         THEN IF "value" \in SeqToSet(x.keys)
              THEN Flat(x.vals[CHOOSE i \in DOMAIN x.keys : x.keys[i] = "value"],
                        numbers)
              ELSE FlatSeq(x.vals, numbers)
    ELSE IF x.t = "num" /\ numbers THEN <<NumberString(x)>>
    ELSE <<>>

Gathered == upc = "returned" /\ ucall.fn = "_gather"

\* C14: for every finite value tree and every builder's _gather, a string
\* yields itself, a list the concatenation in order of gathering each
\* element, a mapping with a value key only the gathering of that key's
\* value, a mapping without one the concatenation of gathering all its
\* values, every other value (number, boolean, null) nothing; and the call
\* returns.
C14_GatherSemantics ==
    /\ (upc = "called" /\ ucall.fn = "_gather") => uret = Undef
    /\ Gathered => uret = Flat(ucall.x, FALSE)

\* C14 as the code has it: the same, but in EthicsBuilder._gather a number
\* yields its decimal string.
C14_GatherSemanticsButNumbers ==
    /\ (upc = "called" /\ ucall.fn = "_gather") => uret = Undef
    /\ Gathered => uret = Flat(ucall.x, ucall.builder = "ethics")

\* A mapping whose value key has a sibling that holds identifiers was
\* gathered to the identifiers under value alone.
C14_Witness ==
    /\ Gathered
    /\ ucall.x.t = "map" /\ Len(ucall.x.keys) = 2
    /\ HasKey(ucall.x, "value")
    /\ \E i \in 1..2 : ucall.x.keys[i] # "value" /\ Gather(ucall.x.vals[i]) # <<>>
    /\ Len(uret) = 2
    /\ uret = Gather(Get(ucall.x, "value"))

Built == upc = "returned" /\ ucall.fn = "build"

Applied == upc = "returned" /\ ucall.fn = "applyBidirectionalToParsedData"

\* The opposites list of trait a in a result: its `no` after build, its
\* `opposites` (a lone value counting as a list of one) after
\* applyBidirectionalToParsedData.
OppositesIn(result, a) ==
    LET d == result.vals[CHOOSE i \in DOMAIN result.keys : result.keys[i] = a]
        o == d.vals[CHOOSE i \in DOMAIN d.keys :
                        d.keys[i] = IF Built THEN "no" ELSE "opposites"]
    IN  IF Built \/ "opposites" \in SeqToSet(d.keys)
        THEN (IF o.t = "list" THEN o.items ELSE <<o>>)
        ELSE <<>>

\* The traits of the input that build keeps.
KeptTraits ==
    SelectSeq(ucall.x.keys,
              LAMBDA a : /\ Get(Get(ucall.x, a), "initial") \notin {Bool(FALSE), Str("no")}
                         /\ ~(ucall.filterFn.given /\ a \in ucall.filterFn.rejects))

\* The names trait a declares in the input, as a list.
DeclaredOpposites(a) ==
    LET o == Get(Get(ucall.x, a), "opposites")
    IN  IF o.t = "list" THEN o.items
        ELSE IF o.t = "str" THEN <<o>>
        ELSE IF o.t = "map" /\ Applied THEN <<o>>
        ELSE <<>>

\* list is start followed by names of present traits, none of them in start
\* and none of them twice.
OnlyNewAdded(start, list, present) ==
    /\ Len(list) >= Len(start)
    /\ SubSeq(list, 1, Len(start)) = start
    /\ \A i \in (Len(start) + 1)..Len(list) :
          /\ list[i].t = "str" /\ list[i].s \in present
          /\ \A j \in 1..(i - 1) : list[j] # list[i]

\* C15: after TraitsBuilder.build and after applyBidirectionalToParsedData,
\* for any two traits A and B both present in the result, if A's opposites
\* list contains B then B's contains A; an identifier is never added to a
\* list that already contains it; opposites naming a trait absent from the
\* result are kept unchanged and no entry is created for them.
C15_TraitsBidirectional ==
    (Built \/ Applied) =>
        LET present == IF Built THEN KeptTraits ELSE ucall.x.keys
        IN  /\ uret.t = "map" /\ uret.keys = present
            /\ \A i, j \in DOMAIN present :
                  Str(present[j]) \in SeqToSet(OppositesIn(uret, present[i]))
                      => Str(present[i]) \in SeqToSet(OppositesIn(uret, present[j]))
            /\ \A i \in DOMAIN present :
                  OnlyNewAdded(DeclaredOpposites(present[i]),
                               OppositesIn(uret, present[i]),
                               SeqToSet(present))

\* build returned two traits of which only the first declared the other,
\* next to a trait no file has: the second now names the first, and the
\* absent trait stays in the first's list.
C15_Witness ==
    /\ Built
    /\ Len(uret.keys) = 2
    /\ DeclaredOpposites(uret.keys[1]) = <<Str("trait_z"), Str(uret.keys[2])>>
    /\ DeclaredOpposites(uret.keys[2]) = <<Str("trait_z")>>
    /\ OppositesIn(uret, uret.keys[1]) = <<Str("trait_z"), Str(uret.keys[2])>>
    /\ OppositesIn(uret, uret.keys[2]) = <<Str("trait_z"), Str(uret.keys[1])>>

\* C16: after OriginsBuilder.build, for any two origins A and B that are
\* keys of the returned definitions, if A's extracted no.civics contains B
\* then B's returned no.civics contains A.
C16_OriginsSymmetricClosure ==
    (builder = "origins" /\ Done) =>
        \A A \in Keys : \A B \in Keys :
            B \in Declared(A) => A \in SeqToSet(NoCivics(B))

\* The number of backslashes of s that end at character n (counted from 1).
RECURSIVE BackslashRun(_, _)
BackslashRun(s, n) ==
    IF n >= 1 /\ SubSeq(s, n, n) = "\\" THEN 1 + BackslashRun(s, n - 1) ELSE 0

\* The first `"` of s at or after character n that an even number of
\* backslashes precedes; Len(s) + 1 when there is none.
RECURSIVE ClosingQuote(_, _)
ClosingQuote(s, n) ==
    IF n > Len(s) THEN n
    ELSE IF SubSeq(s, n, n) = "\"" /\ BackslashRun(s, n - 1) % 2 = 0 THEN n
    ELSE ClosingQuote(s, n + 1)

\* s with each escape \" decoded to " and each \\ to \, other characters
\* literal.
RECURSIVE Decoded(_)
Decoded(s) ==
    IF s = "" THEN ""
    ELSE IF Len(s) >= 2 /\ SubSeq(s, 1, 1) = "\\"
                        /\ SubSeq(s, 2, 2) \in {"\"", "\\"}
         THEN SubSeq(s, 2, 2) \o Decoded(SubSeq(s, 3, Len(s)))
    ELSE SubSeq(s, 1, 1) \o Decoded(SubSeq(s, 2, Len(s)))

\* The tokenizer stands on an opening quote.
AtQuote == ppc = "tokenize" /\ pos < Len(src) /\ SubSeq(src, pos + 1, pos + 1) = "\""

\* C17: a quoted-string token ends at the first `"` preceded by an even
\* number of backslashes, and its value is the enclosed text with each \"
\* decoded to " and each \\ to \; the source "a\"b" yields a"b.
C17_QuotedStringDecoding ==
    [][AtQuote =>
          LET close == ClosingQuote(src, pos + 2)
          IN  /\ pos' = IF close > Len(src) THEN Len(src) ELSE close
              /\ tokens' = Append(tokens,
                                  [type |-> "string",
                                   value |-> Decoded(SubSeq(src, pos + 2, close - 1))])]_vars

\* C18: for every token sequence with balanced braces, each _parseBlock
\* returns on consuming the `}` that matches the `{` that opened it, also
\* when a `}` directly follows an `=` or a comparator: between two loop
\* iterations the blocks being read are as many as the braces left open by
\* the tokens consumed, and the entry z = a written after the block
\* r = { ... } is an entry of the document, not of r.
C18_BraceMatching ==
    input.kind = "after" =>
        /\ ppc = "parse" => Len(stack) - 1 = BraceDepth(tokens, idx)
        /\ ppc = "done" =>
              /\ out.t = "map" /\ out.keys = <<"r", "z">>
              /\ out.vals[2] = Str("a")

NoneTwice(q) == \A i \in DOMAIN q : \A j \in DOMAIN q : i < j => q[i] # q[j]

\* C19: in every RequirementSet returned by CivicsBuilder.build and
\* OriginsBuilder.build, after all post-processing (trait-inherited
\* requirements, single-element group flattening), no scalar identifier
\* occurs twice in the same per-facet required list and none occurs twice in
\* the same per-facet forbidden list; identical AlternativeGroups may stand
\* side by side.
C19_DuplicateFreeLists ==
    Done =>
        \A i \in DOMAIN defs.recs :
            /\ \A f \in DOMAIN defs.recs[i].yes :
                  \A m \in DOMAIN defs.recs[i].yes[f] :
                      \A n \in DOMAIN defs.recs[i].yes[f] :
                          (m < n /\ defs.recs[i].yes[f][m] = defs.recs[i].yes[f][n])
                              => defs.recs[i].yes[f][m].g
            /\ \A f \in DOMAIN defs.recs[i].no : NoneTwice(defs.recs[i].no[f])

\* The blocks of the condition sections an entity declares more than once.
RepeatedBlocks(data) ==
    UNION { IF Get(data, k).t = "list" /\ Len(Get(data, k).items) >= 2
            THEN SeqToSet(Get(data, k).items) ELSE {} :
            k \in {"potential", "possible"} }

\* What the walker extracts from one block into empty sets.
BlockAlone(block) ==
    IF builder = "civics"
    THEN CivicsExtractReqs(block, [yes |-> CivicsEmptyLists, no |-> CivicsEmptyLists])
    ELSE OriginsExtractReqs(block, [yes |-> OriginsEmptyLists, no |-> OriginsEmptyLists])

\* A required item as it is returned: in origins a group of one is returned
\* as its identifier.
Returned(item) ==
    IF builder = "origins" /\ item.g /\ Len(item.ids) = 1 THEN Atom(item.ids[1])
    ELSE item

\* C20: when an entity declares potential or possible n >= 2 times, so that
\* the section is an array of blocks, the builder, civics and origins alike,
\* extracts every block: the returned RequirementSet holds the requirements
\* and prohibitions of each of the n blocks.
C20_RepeatedSectionsAccumulate ==
    Done =>
        \A i \in DOMAIN defs.names :
            \A block \in RepeatedBlocks(DataOf(defs.names[i])) :
                \A f \in DOMAIN BlockAlone(block).yes :
                    /\ \A m \in DOMAIN BlockAlone(block).yes[f] :
                          Returned(BlockAlone(block).yes[f][m])
                              \in SeqToSet(defs.recs[i].yes[f])
                    /\ \A m \in DOMAIN BlockAlone(block).no[f] :
                          BlockAlone(block).no[f][m]
                              \in SeqToSet(defs.recs[i].no[f])

\* The closure has been called (and may have returned).
InClosure == bpc \in {"collect", "scan", "rewrite", "done"}

\* Entry i of defs is as it was extracted, its no.civics aside.
AsExtracted(i) ==
    LET rec == defs.recs[i]
        was == Extracted(defs.names[i])
    IN  /\ rec.yes = was.yes
        /\ DOMAIN rec.no = DOMAIN was.no
        /\ \A f \in DOMAIN rec.no \ {"civics"} : rec.no[f] = was.no[f]

\* C21: the closure (_makeBidirectional of either builder) changes nothing
\* but the no.civics list of entities already present: from its call to its
\* return every entity's required side and every other forbidden facet are
\* as extracted, no step of it adds, drops or reorders an entity or touches
\* anything of an entry but no.civics, and the civicsFiles are never
\* modified.
C21_ClosureFrame ==
    /\ [](InClosure => \A i \in DOMAIN defs.recs : AsExtracted(i))
    /\ [][InClosure =>
            /\ defs'.names = defs.names
            /\ \A i \in DOMAIN defs.recs :
                  /\ defs'.recs[i].yes = defs.recs[i].yes
                  /\ \A f \in DOMAIN defs.recs[i].no \ {"civics"} :
                        defs'.recs[i].no[f] = defs.recs[i].no[f]]_vars
    /\ [][civicsFiles' = civicsFiles /\ file' = file]_vars

\* The closure has changed the no.civics of a returned entity that also has
\* requirements, and these are as extracted.
C21_Witness ==
    /\ Done
    /\ \E i \in DOMAIN defs.recs :
          /\ defs.recs[i].no.civics # Extracted(defs.names[i]).no.civics
          /\ \E f \in DOMAIN defs.recs[i].yes : defs.recs[i].yes[f] # <<>>
          /\ AsExtracted(i)

\* The incompatibility sets hold, for every key of defs, exactly its closure
\* set: every entity and every civics file has been visited.
Collected ==
    \A name \in Keys :
        /\ IncHas(incompatibilities, name)
        /\ SeqToSet(IncGet(incompatibilities, name)) = ClosureSet(name)

\* The permutations of 1..n.
Orders(n) == {p \in [1..n -> 1..n] : \A i, j \in 1..n : i # j => p[i] # p[j]}

\* The definitions as extracted, enumerated in the order p.
Enumerated(p) ==
    [names |-> [i \in DOMAIN p |-> defs.names[p[i]]],
     recs |-> [i \in DOMAIN p |-> Extracted(defs.names[p[i]])]]

\* The passes of the closure, each run to its end over d.
RECURSIVE CollectFrom(_, _, _)
CollectFrom(m, d, i) ==
    IF i > Len(d.names) THEN m
    ELSE CollectFrom(IF builder = "civics"
                     THEN CivicsCollect(m, d.names[i], d.recs[i].no.civics)
                     ELSE OriginsCollect(m, d.names[i], d.recs[i].no.civics),
                     d, i + 1)

RECURSIVE ScanFrom(_, _)
ScanFrom(m, i) ==
    IF i > Len(civicsFiles) \/ builder = "civics" THEN m
    ELSE ScanFrom(ScanCivicsFile(m, civicsFiles[i]), i + 1)

RECURSIVE RewriteFrom(_, _, _)
RewriteFrom(d, m, i) ==
    IF i > Len(d.names) THEN d ELSE RewriteFrom(Rewrite(d, m, i), m, i + 1)

\* The no.civics of name when the entities are enumerated in the order p.
NoCivicsInOrder(p, name) ==
    LET d == Enumerated(p)
        r == RewriteFrom(d, ScanFrom(CollectFrom(EmptyInc, d, 1), 1), 1)
    IN  r.recs[IndexOf(r.names, name)].no.civics

\* C22: in the closure of either builder no entity's no.civics is rewritten
\* until the collect passes have visited every entity and every civics
\* file: up to the last pass every list is as extracted, during the last
\* pass the sets are complete, so that a rewritten list holds what entities
\* visited later declare, and the returned no.civics of every entity is the
\* same for every order in which the entities are enumerated.
C22_CollectBeforeRewrite ==
    /\ [](bpc \in {"collect", "scan"} =>
             \A i \in DOMAIN defs.recs :
                 defs.recs[i].no.civics = Extracted(defs.names[i]).no.civics)
    /\ [](bpc = "rewrite" => Collected)
    /\ [][(InClosure /\ defs' # defs) => (bpc = "rewrite" /\ Collected)]_vars
    /\ [](Done => \A p \in Orders(Len(defs.names)) : \A name \in Keys :
                     NoCivics(name) = NoCivicsInOrder(p, name))

\* Two civics were returned of which only the one visited last declared the
\* other: the list of the first, rewritten first, names the second.
C22_Witness ==
    /\ Done /\ builder = "civics"
    /\ Len(defs.names) = 2
    /\ defs.names[1] \in Declared(defs.names[2])
    /\ defs.names[2] \notin Declared(defs.names[1])
    /\ defs.names[2] \in SeqToSet(defs.recs[1].no.civics)

\* The frames after a loop iteration with outcome r.
FramesAfter(stk, r) ==
    LET s1 == [stk EXCEPT ![Len(stk)] = r.frame]
    IN  IF r.open THEN Append(s1, r.child) ELSE s1

\* What parse returns on the tokens toks, from token i on with the frames
\* stk: the loop iterations of parse and _parseBlock, run to the end.
RECURSIVE ParseFrom(_, _, _)
ParseFrom(toks, i, stk) ==
    LET tk == Peek(toks, i)
        r == IF Len(stk) = 1 THEN TopEntry(toks, i, stk[1])
             ELSE BlockEntry(toks, i, stk[Len(stk)])
    IN  IF Len(stk) = 1 /\ tk = Undef THEN stk[1].obj
        ELSE IF Len(stk) > 1 /\ tk = Undef THEN ParseFrom(toks, i, ReturnBlock(stk))
        ELSE IF Len(stk) > 1 /\ tk.type = "}"
             THEN ParseFrom(toks, i + 1, ReturnBlock(stk))
        ELSE IF r.err THEN Raise
        ELSE ParseFrom(toks, r.idx, FramesAfter(stk, r))

\* n closing braces.
Closers(n) == [i \in 1..n |-> Token("}", "}")]

\* The tokens of the input with the missing closing braces appended.
Completed == tokens \o Closers(BraceDepth(tokens, Len(tokens)))

\* C23: for every input whose only structural anomaly is one or more missing
\* closing braces at the end, a block ending in a dangling `=` included,
\* parse returns the value tree it returns for the same input with the
\* missing `}` appended: what the unclosed blocks collected is kept.
C23_EndOfInputCloses ==
    (ppc = "done" /\ input.kind = "open") =>
        out = ParseFrom(Completed, 0, <<Frame("top", "")>>)

====
